---- MODULE Spec2Model ----
(***************************************************************************)
(* A model of railway-provision-sandbox: the resilient GraphQL client      *)
(* (src/src/railway-client.ts) and the provisioning workflow               *)
(* (src/src/services/provisioner.ts) run against a remote workspace.       *)
(*                                                                         *)
(* Strings are sequences of one-character strings, so that toLowerCase,    *)
(* includes and template literals are computed the way the code computes   *)
(* them.                                                                   *)
(***************************************************************************)
EXTENDS Integers, Sequences, FiniteSets, TLC

VARIABLES
    qpc,         \* position of RailwayClient.query: "loop", "fetch", "returned", "thrown"
    attempt,     \* the loop variable of query
    lastError,   \* the local lastError of query (NoError while undefined)
    qresult,     \* what query returned or threw
    qlog,        \* history: the warnings, sleeps and fetches of the call, in order
    responses,   \* history: what each fetch of the call gave, in order
    \* Provisioner.provision, one invocation per run
    actorOf,     \* the actor (userId, email) each run is invoked for
    ppc,         \* position of each run: "off" (never invoked), "idle", "create",
                 \* "lookup", "add", "done", "failed"
    pattempt,    \* the attempt counter of the run's current client call
    plastError,  \* the lastError of the run's current client call
    projectName, \* the local projectName of each run
    projectId,   \* the local projectId of each run
    presult,     \* the ProvisioningResult each run returned
    pfailure,    \* the error each run threw
    \* the remote workspace
    projects,    \* the workspace's projects, in listing order
    members,     \* the project memberships
    created,     \* number of projects the remote has created
    faultsLeft,  \* number of client calls the remote may still fail on its own
    \* history of each run
    createErr,   \* the error its projectCreate threw
    addErr,      \* the error its projectMemberAdd threw
    lookedUp,    \* the project list its lookup returned
    addArgs,     \* the arguments of its projectMemberAdd
    createdId,   \* the id of the project the remote created on its request
    hadFailure,  \* the classes of the remote's own failures that its fetches met
    overlapped,  \* history: some run was invoked while another was in flight
    firstEnded,  \* history: the run that ended first (0 while none has)
    \* the remote workspace, continued
    workspaceRole, \* the workspace role of each actor
    writesLeft,  \* number of changes other writers may still make to the workspace
    \* Provisioner.deriveProjectName, called on its own
    dpc,         \* "input" before the calls, "derived" after
    demail,      \* the email argument
    duserId,     \* the userId argument
    dotherId,    \* the userId of another actor with the same email local-part
    dname,       \* deriveProjectName(demail, duserId)
    dotherName,  \* deriveProjectName(demail, dotherId)
    \* the configuration
    publicDomain,  \* config.publicDomain (empty while not set)
    webhookSecret, \* config.webhookSecret (empty while not set)
    \* NotificationSetup.ensureNotificationRule
    npc,         \* position: "off", "start", "list", "delete", "create", "returned", "thrown", "crashed"
    nruns,       \* number of invocations so far
    rules,       \* the notification rules of the remote workspace, in listing order
    rulesMade,   \* number of rules the remote has created
    rulesBefore, \* history: the rules when the current invocation started
    existing,    \* the local existing (NoRule while null)
    nresult,     \* what the invocation returned (NoRule for null)
    nfailure,    \* the error the invocation threw
    ncalls,      \* history: the client calls of the current invocation, in order
    nwarnings,   \* history: number of logger.warn calls of the current invocation
    createInputs, \* history: the inputs of the notificationRuleCreate requests sent
    \* WebhookHandler.validatePayload
    vpc,         \* position: "off", "called", "returned"
    vinput,      \* the argument, as its position in Payloads
    vanswer,     \* what the call gave: "true", "false" or "TypeError" ("none" before)
    \* WebhookHandler.handleWebhook
    hpc,         \* position: "off", "received", "provisioning", "responded"
    rawBody,     \* the text of the request body
    signature,   \* the x-webhook-signature header of the request
    response,    \* the Response of handleWebhook
    verified,    \* history: number of calls of verifySignature
    provisioned  \* history: the arguments of the calls of provisioner.provision

qvars == <<qpc, attempt, lastError, qresult, qlog, responses>>

pvars == <<actorOf, ppc, pattempt, plastError, projectName, projectId, presult, pfailure,
           projects, members, created, faultsLeft,
           createErr, addErr, lookedUp, addArgs, createdId, hadFailure, overlapped,
           firstEnded>>

rvars == <<workspaceRole, writesLeft>>

dvars == <<dpc, demail, duserId, dotherId, dname, dotherName>>

cvars == <<publicDomain, webhookSecret>>

nvars == <<npc, nruns, rules, rulesMade, rulesBefore, existing, nresult, nfailure, ncalls,
           nwarnings, createInputs>>

vvars == <<vpc, vinput, vanswer>>

hvars == <<hpc, rawBody, signature, response, verified, provisioned>>

vars == <<qvars, pvars, rvars, dvars, cvars, nvars, vvars, hvars>>

----------------------------------------------------------------------------
(* Strings *)

UpperChars == <<"A","B","C","D","E","F","G","H","I","J","K","L","M","N","O","P","Q","R","S","T","U","V","W","X","Y","Z">>
LowerChars == <<"a","b","c","d","e","f","g","h","i","j","k","l","m","n","o","p","q","r","s","t","u","v","w","x","y","z">>
DigitChars == <<"0","1","2","3","4","5","6","7","8","9">>

\* String.prototype.toLowerCase, one character
LowerChar(c) ==
    IF \E i \in 1..Len(UpperChars) : UpperChars[i] = c
    THEN LowerChars[CHOOSE i \in 1..Len(UpperChars) : UpperChars[i] = c]
    ELSE c

\* String.prototype.toLowerCase
ToLowerCase(s) == [i \in 1..Len(s) |-> LowerChar(s[i])]

\* String.prototype.includes
Includes(s, sub) ==
    \E i \in 1..(Len(s) - Len(sub) + 1) : SubSeq(s, i, i + Len(sub) - 1) = sub

\* `${n}` for a non-negative integer n
RECURSIVE NumToStr(_)
NumToStr(n) ==
    IF n < 10 THEN <<DigitChars[n + 1]>>
    ELSE NumToStr(n \div 10) \o <<DigitChars[(n % 10) + 1]>>

----------------------------------------------------------------------------
(* RailwayClient.query: src/src/railway-client.ts *)

MAX_RETRIES == 3
BASE_DELAY_MS == 500
MAX_DELAY_MS == 5000

\* statusCode?: number and graphqlErrors?: [...] when they are not given
Undefined == -1

NoError == [name |-> "undefined", message |-> <<>>, statusCode |-> Undefined, graphqlErrors |-> <<>>]

\* new RailwayAPIError(message, statusCode, graphqlErrors)
RailwayAPIError(message, statusCode, graphqlErrors) ==
    [name |-> "RailwayAPIError", message |-> message,
     statusCode |-> statusCode, graphqlErrors |-> graphqlErrors]

\* an error that is no RailwayAPIError: what fetch, response.text() or
\* response.json() reject with
ForeignError(name, message) ==
    [name |-> name, message |-> message, statusCode |-> Undefined, graphqlErrors |-> <<>>]

MsgReturned == <<"R","a","i","l","w","a","y"," ","A","P","I"," ","r","e","t","u","r","n","e","d"," ">>
MsgApiError == <<"R","a","i","l","w","a","y"," ","A","P","I"," ","e","r","r","o","r",":"," ">>
MsgGraphQL == <<"G","r","a","p","h","Q","L"," ","e","r","r","o","r",":"," ">>
MsgAfterRetries == <<"R","a","i","l","w","a","y"," ","A","P","I"," ","r","e","q","u","e","s","t"," ","f","a","i","l","e","d"," ","a","f","t","e","r"," ","r","e","t","r","i","e","s">>
MsgFetchFailed == <<"f","e","t","c","h"," ","f","a","i","l","e","d">>
MsgUnexpectedToken == <<"U","n","e","x","p","e","c","t","e","d"," ","t","o","k","e","n">>

\* Math.min
Min(a, b) == IF a <= b THEN a ELSE b

\* the delay slept before retry number n (n > 0)
DelayTwice(n) == Min(BASE_DELAY_MS * 2 ^ n, MAX_DELAY_MS)
Delay(n) == Min(BASE_DELAY_MS * 2 ^ (n - 1), MAX_DELAY_MS)

\* response.status === 429 || response.status >= 500
IsRetryableStatus(status) == status = 429 \/ status >= 500

\* response.ok
ResponseOk(status) == status >= 200 /\ status <= 299

\* ?? 0
Coalesce(statusCode) == IF statusCode = Undefined THEN 0 ELSE statusCode

\* the condition of the catch block under which the error is thrown again
CatchRethrowsNever(err) == FALSE
CatchRethrowsOnlyWithStatus(err) ==
    /\ err.name = "RailwayAPIError"
    /\ err.statusCode # Undefined
    /\ err.statusCode # 429
    /\ err.statusCode < 500
CatchRethrowsAnyError(err) ==
    /\ err.statusCode # 429
    /\ Coalesce(err.statusCode) < 500
CatchRethrows(err) ==
    /\ err.name = "RailwayAPIError"
    /\ err.statusCode # 429
    /\ Coalesce(err.statusCode) < 500

(***************************************************************************)
(* What one fetch gives.  net: fetch (or reading the body) rejected;       *)
(* otherwise a response with a status; text is the body of a non-2xx       *)
(* response; a 2xx body parses as JSON or not, and when it does it has     *)
(* the errors (<<>> when absent or empty) and the data.                    *)
(***************************************************************************)
Outcome(net, status, text, parses, errors, data) ==
    [net |-> net, status |-> status, text |-> text, parses |-> parses,
     errors |-> errors, data |-> data]

\* the body of the try block: what it does with the result of fetch
TryBody(o) ==
    IF o.net
    THEN [kind |-> "throw", error |-> ForeignError("TypeError", MsgFetchFailed), data |-> "undefined"]
    ELSE IF IsRetryableStatus(o.status)
    THEN [kind |-> "continue",
          error |-> RailwayAPIError(MsgReturned \o NumToStr(o.status), o.status, <<>>),
          data |-> "undefined"]
    ELSE IF ~ResponseOk(o.status)
    THEN [kind |-> "throw",
          error |-> RailwayAPIError(MsgApiError \o NumToStr(o.status) \o <<" ">> \o o.text,
                                    o.status, <<>>),
          data |-> "undefined"]
    ELSE IF ~o.parses
    THEN [kind |-> "throw", error |-> ForeignError("SyntaxError", MsgUnexpectedToken), data |-> "undefined"]
    ELSE IF Len(o.errors) > 0
    THEN [kind |-> "throw",
          error |-> RailwayAPIError(MsgGraphQL \o o.errors[1], Undefined, o.errors),
          data |-> "undefined"]
    ELSE [kind |-> "return", error |-> NoError, data |-> o.data]

\* one iteration of the loop after its fetch: try block and catch block.
\* kind "next": the loop goes on with lastError set to error.
IterationKeepsFirst(last, o) ==
    LET t == TryBody(o) IN
    IF t.kind = "return" THEN t
    ELSE IF t.kind = "throw" /\ CatchRethrows(t.error) THEN t
    ELSE [kind |-> "next", error |-> IF last = NoError THEN t.error ELSE last, data |-> "undefined"]
Iteration(last, o) ==
    LET t == TryBody(o) IN
    IF t.kind = "return" THEN t
    ELSE IF t.kind = "continue" THEN [t EXCEPT !.kind = "next"]
    ELSE IF CatchRethrows(t.error) THEN t
    ELSE [t EXCEPT !.kind = "next"]

\* the loop condition
LoopRunsOnceMore(n) == n <= MAX_RETRIES + 1
LoopRunsOnceLess(n) == n < MAX_RETRIES
LoopRuns(n) == n <= MAX_RETRIES

\* throw lastError ?? new RailwayAPIError("Railway API request failed after retries")
ExhaustedError(last) ==
    IF last = NoError THEN RailwayAPIError(MsgAfterRetries, Undefined, <<>>) ELSE last

----------------------------------------------------------------------------
(* One call of RailwayClient.query against a remote that answers anything *)

BodyForbidden == <<"F","o","r","b","i","d","d","e","n">>
ErrNotFound == <<"N","o","t"," ","f","o","u","n","d">>
ErrUnauthorized == <<"U","n","a","u","t","h","o","r","i","z","e","d">>

NetworkFailure == Outcome(TRUE, 0, <<>>, FALSE, <<>>, "undefined")
RetryableStatuses == {429, 500, 503}
TerminalStatuses == {304, 403, 404}
OkStatuses == {200, 201}

\* what the remote may answer to one fetch
QueryOutcomes ==
    {NetworkFailure}
    \cup {Outcome(FALSE, s, <<>>, FALSE, <<>>, "undefined") : s \in RetryableStatuses}
    \cup {Outcome(FALSE, s, BodyForbidden, FALSE, <<>>, "undefined") : s \in TerminalStatuses}
    \cup {Outcome(FALSE, s, <<>>, FALSE, <<>>, "undefined") : s \in OkStatuses}
    \cup {Outcome(FALSE, s, <<>>, TRUE, e, d) :
             s \in OkStatuses,
             e \in {<<>>, <<ErrNotFound>>, <<ErrUnauthorized, ErrNotFound>>},
             d \in {"data1", "data2", "undefined"}}

LogEvent(ev, n, delay) == [ev |-> ev, attempt |-> n, delay |-> delay]

QInit ==
    /\ qpc = "loop"
    /\ attempt = 0
    /\ lastError = NoError
    /\ qresult = [kind |-> "none", error |-> NoError, data |-> "undefined"]
    /\ qlog = <<>>
    /\ responses = <<>>

\* lines 29-33: the warning and the sleep before a retry
QueryBackoff ==
    /\ qpc = "loop"
    /\ LoopRuns(attempt)
    /\ attempt > 0
    /\ qlog' = qlog \o <<LogEvent("warn", attempt, Delay(attempt)),
                          LogEvent("sleep", attempt, Delay(attempt))>>
    /\ qpc' = "fetch"
    /\ UNCHANGED <<attempt, lastError, qresult, responses>>
    /\ UNCHANGED <<pvars, rvars, dvars, cvars, nvars, vvars, hvars>>

\* lines 35-77: the fetch of one iteration and what the iteration does with it
QueryFetch(o) ==
    /\ \/ qpc = "loop" /\ LoopRuns(attempt) /\ attempt = 0
       \/ qpc = "fetch"
    /\ responses' = Append(responses, o)
    /\ qlog' = Append(qlog, LogEvent("fetch", attempt, 0))
    /\ LET it == Iteration(lastError, o) IN
       IF it.kind = "next"
       THEN /\ lastError' = it.error
            /\ attempt' = attempt + 1
            /\ qpc' = "loop"
            /\ UNCHANGED qresult
       ELSE /\ qresult' = it
            /\ qpc' = IF it.kind = "return" THEN "returned" ELSE "thrown"
            /\ UNCHANGED <<attempt, lastError>>
    /\ UNCHANGED <<pvars, rvars, dvars, cvars, nvars, vvars, hvars>>

\* line 80: the loop is over
QueryExhausted ==
    /\ qpc = "loop"
    /\ ~LoopRuns(attempt)
    /\ qresult' = [kind |-> "throw", error |-> ExhaustedError(lastError), data |-> "undefined"]
    /\ qpc' = "thrown"
    /\ UNCHANGED <<attempt, lastError, qlog, responses>>
    /\ UNCHANGED <<pvars, rvars, dvars, cvars, nvars, vvars, hvars>>

QNext ==
    \/ QueryBackoff
    \/ \E o \in QueryOutcomes : QueryFetch(o)
    \/ QueryExhausted

----------------------------------------------------------------------------
(* Provisioner: src/src/services/provisioner.ts *)

AllowedChars == {"a","b","c","d","e","f","g","h","i","j","k","l","m","n","o","p","q","r","s","t","u","v","w","x","y","z","0","1","2","3","4","5","6","7","8","9","-"}

\* email.split("@")[0]
RECURSIVE BeforeAt(_)
BeforeAt(s) ==
    IF s = <<>> \/ Head(s) = "@" THEN <<>> ELSE <<Head(s)>> \o BeforeAt(Tail(s))

\* .replace(/[^a-z0-9-]/g, "-")
ReplaceDisallowed(s) == [i \in 1..Len(s) |-> IF s[i] \in AllowedChars THEN s[i] ELSE "-"]

\* .replace(/-+/g, "-")
RECURSIVE CollapseDashes(_)
CollapseDashes(s) ==
    IF Len(s) <= 1 THEN s
    ELSE IF s[1] = "-" /\ s[2] = "-" THEN CollapseDashes(Tail(s))
    ELSE <<Head(s)>> \o CollapseDashes(Tail(s))

\* .replace(/^-|-$/g, "")
TrimDashesLeadingOnly(s) == IF s # <<>> /\ s[1] = "-" THEN Tail(s) ELSE s
TrimDashes(s) ==
    LET t == IF s # <<>> /\ s[1] = "-" THEN Tail(s) ELSE s
    IN  IF t # <<>> /\ t[Len(t)] = "-" THEN SubSeq(t, 1, Len(t) - 1) ELSE t

\* userId.slice(-6)
SuffixLength == 6
SliceSuffixFromStart(s) == IF Len(s) <= SuffixLength THEN s ELSE SubSeq(s, 1, SuffixLength)
SliceSuffix(s) == IF Len(s) <= SuffixLength THEN s ELSE SubSeq(s, Len(s) - SuffixLength + 1, Len(s))

deriveProjectName(email, userId) ==
    LET prefix == BeforeAt(email)
        sanitized == TrimDashes(CollapseDashes(ReplaceDisallowed(ToLowerCase(prefix))))
        suffix == SliceSuffix(userId)
    IN  sanitized \o <<"-">> \o suffix

MarkDuplicate == <<"d","u","p","l","i","c","a","t","e">>
MarkAlreadyExists == <<"a","l","r","e","a","d","y"," ","e","x","i","s","t","s">>
MarkUnique == <<"u","n","i","q","u","e">>
MarkAlready == <<"a","l","r","e","a","d","y">>
MarkExists == <<"e","x","i","s","t","s">>

isDuplicateProjectErrorNever(err) == FALSE
isDuplicateProjectErrorAlways(err) == TRUE
isDuplicateProjectError(err) ==
    LET msg == ToLowerCase(err.message)
    IN  Includes(msg, MarkDuplicate) \/ Includes(msg, MarkAlreadyExists) \/ Includes(msg, MarkUnique)

isMemberAlreadyExistsErrorNever(err) == FALSE
isMemberAlreadyExistsError(err) ==
    LET msg == ToLowerCase(err.message)
    IN  Includes(msg, MarkAlready) \/ Includes(msg, MarkExists) \/ Includes(msg, MarkDuplicate)

\* err instanceof RailwayAPIError
IsRailwayAPIError(err) == err.name = "RailwayAPIError"

MsgCouldNotFind == <<"C","o","u","l","d"," ","n","o","t"," ","f","i","n","d"," ","e","x","i","s","t","i","n","g"," ","p","r","o","j","e","c","t"," ","w","i","t","h"," ","n","a","m","e",":"," ">>

NoId == <<>>

\* edges.find(e => e.node.name === name): the index of the first match, 0 when
\* there is none
FindAnyProject(edges, name) == IF edges = <<>> THEN 0 ELSE 1
FindProject(edges, name) ==
    IF \E i \in 1..Len(edges) : edges[i].name = name
    THEN CHOOSE i \in 1..Len(edges) :
            /\ edges[i].name = name
            /\ \A j \in 1..(i - 1) : edges[j].name # name
    ELSE 0

RoleAdmin == <<"A","D","M","I","N">>
RoleViewer == <<"V","I","E","W","E","R">>

NoResult ==
    [userId |-> <<>>, email |-> <<>>, projectId |-> NoId, projectName |-> <<>>,
     workspaceRole |-> <<>>, projectRole |-> <<>>]

\* the ProvisioningResult of lines 44-51
ProvisioningResult(userId, email, id, name) ==
    [userId |-> userId, email |-> email, projectId |-> id, projectName |-> name,
     workspaceRole |-> RoleViewer, projectRole |-> RoleAdmin]

\* one fetch of a client call of a run whose attempt counter is n: the call
\* goes on with another attempt (kind "retry"), returns or throws
ClientStep(n, last, o) ==
    LET it == Iteration(last, o) IN
    IF it.kind # "next" THEN it
    ELSE IF LoopRuns(n + 1) THEN [it EXCEPT !.kind = "retry"]
    ELSE [it EXCEPT !.kind = "throw", !.error = ExhaustedError(it.error)]

----------------------------------------------------------------------------
(* The remote workspace behind the API: names of projects are unique in   *)
(* the workspace and a user is a member of a project at most once; a      *)
(* request that would break this is rejected with an already-exists       *)
(* error, as src/tests/provisioner.test.ts stubs it.                       *)

NumRuns == 3
MaxFaults == 2

Runs == 1..NumRuns

\* the id of the n-th project the remote creates
NewProjectId(n) == <<"p","r","o","j","-">> \o NumToStr(n)

ErrProjectExists == <<"P","r","o","j","e","c","t"," ","n","a","m","e"," ","a","l","r","e","a","d","y"," ","e","x","i","s","t","s">>
ErrDuplicateProject == <<"D","U","P","L","I","C","A","T","E"," ","p","r","o","j","e","c","t">>
ErrMemberExists == <<"M","e","m","b","e","r"," ","a","l","r","e","a","d","y"," ","e","x","i","s","t","s">>
ErrProjectNotFound == <<"P","r","o","j","e","c","t"," ","n","o","t"," ","f","o","u","n","d">>

\* a 2xx answer with data, a 2xx answer with one GraphQL error, and a
\* non-2xx answer with a text body
DataAnswer(d) == Outcome(FALSE, 200, <<>>, TRUE, <<>>, d)
ErrorAnswer(msg) == Outcome(FALSE, 200, <<>>, TRUE, <<msg>>, "undefined")
StatusAnswer(status, text) == Outcome(FALSE, status, text, FALSE, <<>>, "undefined")

ErrProjectGone == <<"P","r","o","j","e","c","t"," ","n","o"," ","l","o","n","g","e","r"," ","e","x","i","s","t","s">>

\* the ways the remote reports that the project of a request is not there
ProjectMissingAnswers == {ErrorAnswer(ErrProjectNotFound), ErrorAnswer(ErrProjectGone)}

\* the ways the remote reports that the project name is taken
ProjectConflictAnswers == {ErrorAnswer(ErrProjectExists), StatusAnswer(409, ErrDuplicateProject)}

\* the classes of the remote's own failures
FaultClass(f) == IF f = "forbidden" THEN "terminal" ELSE "transient"

\* the failures of the remote's own: the request is not applied and answered
\* 503 ("unavailable") or 403 ("forbidden"), or it is applied as usual and
\* its answer is replaced by a 500 ("lost")
FaultKinds == {"unavailable", "lost", "forbidden"}

FaultAnswer(f, normal) ==
    IF f = "unavailable" THEN StatusAnswer(503, <<>>)
    ELSE IF f = "forbidden" THEN StatusAnswer(403, BodyForbidden)
    ELSE IF f = "lost" THEN StatusAnswer(500, <<>>)
    ELSE IF f = "offline" THEN NetworkFailure
    ELSE normal

Applied(f) == f \in {"none", "lost"}

HasProject(name) == \E i \in 1..Len(projects) : projects[i].name = name
HasProjectId(id) == \E i \in 1..Len(projects) : projects[i].id = id
IsMember(id, userId) == \E m \in members : m.projectId = id /\ m.userId = userId

\* the actors of the webhook events: userId and email
Actors ==
    << [userId |-> <<"u","s","e","r","-","1">>,
        email |-> <<"J","o","h","n",".","D","o","e","@","e","x","a","m","p","l","e",".","c","o","m">>],
       [userId |-> <<"x","-","u","s","e","r","-","1">>,
        email |-> <<"j","o","h","n","_","d","o","e","@","c","o","r","p",".","i","o">>],
       [userId |-> <<"u","s","e","r","-","2">>,
        email |-> <<"a","m","y","@","e","x","a","m","p","l","e",".","c","o","m">> ] >>

UserIdOfFirstRun(r) == Actors[actorOf[1]].userId
UserId(r) == Actors[actorOf[r]].userId
Email(r) == Actors[actorOf[r]].email

Project(id, name) == [id |-> id, name |-> name]
Membership(id, userId, role) == [projectId |-> id, userId |-> userId, role |-> role]

\* the workspace before the first event: empty, or holding a project of
\* another name
RoleMember == <<"M","E","M","B","E","R">>

\* the workspace: its projects, their memberships, the workspace role of
\* each actor and the number of changes other writers may make to it
Remote(ps, ms, roles, writes) ==
    [projects |-> ps, members |-> ms, workspaceRole |-> roles, writes |-> writes]

\* every actor joined the workspace as VIEWER
JoinedAsViewer == [a \in 1..Len(Actors) |-> RoleViewer]

InitialRemotes ==
    { Remote(<<>>, {}, JoinedAsViewer, 0),
      Remote(<<Project(NewProjectId(0), <<"j","o","h","n","-","d","o","e">>)>>, {}, JoinedAsViewer, 0) }

PStart(actors, remote, invoked, budget) ==
    /\ actorOf = actors
    /\ ppc = [r \in Runs |-> IF r \in invoked THEN "idle" ELSE "off"]
    /\ pattempt = [r \in Runs |-> 0]
    /\ plastError = [r \in Runs |-> NoError]
    /\ projectName = [r \in Runs |-> <<>>]
    /\ projectId = [r \in Runs |-> NoId]
    /\ presult = [r \in Runs |-> NoResult]
    /\ pfailure = [r \in Runs |-> NoError]
    /\ projects = remote.projects
    /\ members = remote.members
    /\ created = 0
    /\ faultsLeft = budget
    /\ createErr = [r \in Runs |-> NoError]
    /\ addErr = [r \in Runs |-> NoError]
    /\ lookedUp = [r \in Runs |-> <<>>]
    /\ addArgs = [r \in Runs |-> <<>>]
    /\ createdId = [r \in Runs |-> NoId]
    /\ hadFailure = [r \in Runs |-> {}]
    /\ overlapped = FALSE
    /\ firstEnded = 0
    /\ workspaceRole = remote.workspaceRole
    /\ writesLeft = remote.writes

\* the runs are interchangeable: the first is for the first actor and the
\* others are for any actors, in the order of Actors
ActorChoices ==
    {actors \in [Runs -> 1..Len(Actors)] :
        /\ actors[1] = 1
        /\ \A r \in Runs : r = 1 \/ actors[r - 1] <= actors[r]}

\* two invocations for the same actor (the event is delivered twice), one
\* after the other or concurrent, against a remote that may fail MaxFaults
\* of their client calls on its own
PairOfRuns == {1, 2}
PInit ==
    \E remote \in InitialRemotes :
        PStart([r \in Runs |-> 1], remote, PairOfRuns, MaxFaults)

\* NumRuns concurrent invocations against a remote that never fails on its own
CInit ==
    \E actors \in ActorChoices, remote \in InitialRemotes :
        PStart(actors, remote, Runs, 0)

PFrozen == PStart([r \in Runs |-> 1], Remote(<<>>, {}, JoinedAsViewer, 0), {}, 0)

Ended(r) == ppc[r] \in {"done", "failed"}
InFlight(r) == ppc[r] \in {"create", "lookup", "add"}

FaultChoices == {"none"} \cup FaultKinds

\* a failure of the remote's own hits a client call that already met one, or
\* one of the faultsLeft calls that may still meet one; the run remembers it
NoteFault(r, f) ==
    /\ f # "none" => (pattempt[r] > 0 \/ faultsLeft > 0)
    /\ faultsLeft' = IF f # "none" /\ pattempt[r] = 0 THEN faultsLeft - 1 ELSE faultsLeft
    /\ hadFailure' = [hadFailure EXCEPT ![r] = IF f = "none" THEN @ ELSE @ \cup {FaultClass(f)}]

\* the next client call of the run starts with attempt 0 and no lastError
NextCall(r, pc) ==
    /\ ppc' = [ppc EXCEPT ![r] = pc]
    /\ firstEnded' = IF pc \in {"done", "failed"} /\ firstEnded = 0 THEN r ELSE firstEnded
    /\ pattempt' = [pattempt EXCEPT ![r] = 0]
    /\ plastError' = [plastError EXCEPT ![r] = NoError]

\* the current client call of the run makes another attempt
Retry(r, step) ==
    /\ pattempt' = [pattempt EXCEPT ![r] = @ + 1]
    /\ plastError' = [plastError EXCEPT ![r] = step.error]
    /\ UNCHANGED <<ppc, firstEnded>>

\* provision throws err
Fail(r, err) ==
    /\ NextCall(r, "failed")
    /\ pfailure' = [pfailure EXCEPT ![r] = err]

\* lines 12-17: provision is invoked and derives the project name
ProvisionStart(r) ==
    /\ ppc[r] = "idle"
    /\ ppc' = [ppc EXCEPT ![r] = "create"]
    /\ projectName' = [projectName EXCEPT ![r] = deriveProjectName(Email(r), UserId(r))]
    /\ overlapped' = (overlapped \/ \E q \in Runs : InFlight(q))
    /\ UNCHANGED <<actorOf, pattempt, plastError, projectId, presult, pfailure,
                   projects, members, created, faultsLeft,
                   createErr, addErr, lookedUp, addArgs, createdId, hadFailure, firstEnded>>
    /\ UNCHANGED <<qvars, rvars, dvars, cvars, nvars, vvars, hvars>>

\* lines 19-30: one fetch of client.projectCreate(projectName, workspaceId)
\* and what provision does when the call ends with it
ProvisionCreate(r, f, conflict) ==
    LET name == projectName[r]
        taken == HasProject(name)
        newId == NewProjectId(created + 1)
        creates == Applied(f) /\ ~taken
        normal == IF taken THEN conflict ELSE DataAnswer(Project(newId, name))
        step == ClientStep(pattempt[r], plastError[r], FaultAnswer(f, normal))
    IN
    /\ ppc[r] = "create"
    /\ NoteFault(r, f)
    /\ projects' = IF creates THEN Append(projects, Project(newId, name)) ELSE projects
    /\ created' = IF creates THEN created + 1 ELSE created
    /\ createdId' = IF creates THEN [createdId EXCEPT ![r] = newId] ELSE createdId
    /\ CASE step.kind = "retry" ->
              /\ Retry(r, step)
              /\ UNCHANGED <<projectId, pfailure, createErr>>
         [] step.kind = "return" ->
              /\ NextCall(r, "add")
              /\ projectId' = [projectId EXCEPT ![r] = step.data.id]
              /\ UNCHANGED <<pfailure, createErr>>
         [] step.kind = "throw" ->
              /\ createErr' = [createErr EXCEPT ![r] = step.error]
              /\ IF IsRailwayAPIError(step.error) /\ isDuplicateProjectError(step.error)
                 THEN NextCall(r, "lookup") /\ UNCHANGED pfailure
                 ELSE Fail(r, step.error)
              /\ UNCHANGED projectId
    /\ UNCHANGED <<actorOf, projectName, presult, members, addErr, lookedUp, addArgs,
                   overlapped>>
    /\ UNCHANGED <<qvars, rvars, dvars, cvars, nvars, vvars, hvars>>

\* lines 78-101: one fetch of the project list query of findExistingProject
\* and what provision does when the call ends with it
ProvisionLookup(r, f) ==
    LET name == projectName[r]
        step == ClientStep(pattempt[r], plastError[r], FaultAnswer(f, DataAnswer(projects)))
        found == FindProject(step.data, name)
    IN
    /\ ppc[r] = "lookup"
    /\ NoteFault(r, f)
    /\ CASE step.kind = "retry" ->
              /\ Retry(r, step)
              /\ UNCHANGED <<projectId, pfailure, lookedUp>>
         [] step.kind = "return" ->
              /\ lookedUp' = [lookedUp EXCEPT ![r] = <<step.data>>]
              /\ IF found = 0
                 THEN /\ Fail(r, ForeignError("Error", MsgCouldNotFind \o name))
                      /\ UNCHANGED projectId
                 ELSE /\ NextCall(r, "add")
                      /\ projectId' = [projectId EXCEPT ![r] = step.data[found].id]
                      /\ UNCHANGED pfailure
         [] step.kind = "throw" ->
              /\ Fail(r, step.error)
              /\ UNCHANGED <<projectId, lookedUp>>
    /\ UNCHANGED <<actorOf, projectName, presult, projects, members, created,
                   createErr, addErr, addArgs, createdId, overlapped>>
    /\ UNCHANGED <<qvars, rvars, dvars, cvars, nvars, vvars, hvars>>

\* lines 32-54: one fetch of client.projectMemberAdd(projectId, userId, "ADMIN")
\* and what provision does when the call ends with it
ProvisionAdd(r, f, missing) ==
    LET id == projectId[r]
        adds == Applied(f) /\ HasProjectId(id) /\ ~IsMember(id, UserId(r))
        normal == IF ~HasProjectId(id) THEN missing
                  ELSE IF IsMember(id, UserId(r)) THEN ErrorAnswer(ErrMemberExists)
                  ELSE DataAnswer("member")
        step == ClientStep(pattempt[r], plastError[r], FaultAnswer(f, normal))
        result == ProvisioningResult(UserId(r), Email(r), id, projectName[r])
    IN
    /\ ppc[r] = "add"
    /\ NoteFault(r, f)
    /\ addArgs' = [addArgs EXCEPT ![r] = <<Membership(id, UserId(r), RoleAdmin)>>]
    /\ members' = IF adds THEN members \cup {Membership(id, UserId(r), RoleAdmin)} ELSE members
    /\ CASE step.kind = "retry" ->
              /\ Retry(r, step)
              /\ UNCHANGED <<presult, pfailure, addErr>>
         [] step.kind = "return" ->
              /\ NextCall(r, "done")
              /\ presult' = [presult EXCEPT ![r] = result]
              /\ UNCHANGED <<pfailure, addErr>>
         [] step.kind = "throw" ->
              /\ addErr' = [addErr EXCEPT ![r] = step.error]
              /\ IF IsRailwayAPIError(step.error) /\ isMemberAlreadyExistsError(step.error)
                 THEN /\ NextCall(r, "done")
                      /\ presult' = [presult EXCEPT ![r] = result]
                      /\ UNCHANGED pfailure
                 ELSE /\ Fail(r, step.error)
                      /\ UNCHANGED presult
    /\ UNCHANGED <<actorOf, projectName, projectId, projects, created,
                   createErr, lookedUp, createdId, overlapped>>
    /\ UNCHANGED <<qvars, rvars, dvars, cvars, nvars, vvars, hvars>>

PNext ==
    \E r \in Runs :
        \/ ProvisionStart(r)
        \/ \E f \in FaultChoices, conflict \in ProjectConflictAnswers : ProvisionCreate(r, f, conflict)
        \/ \E f \in FaultChoices : ProvisionLookup(r, f)
        \/ \E f \in FaultChoices, missing \in ProjectMissingAnswers : ProvisionAdd(r, f, missing)

----------------------------------------------------------------------------
(* The workspace is shared: it may hold a project of the derived name      *)
(* before the first event, with the actor a VIEWER of it or not; the       *)
(* actors joined as VIEWER or as MEMBER; other writers delete projects;    *)
(* and a projectCreate may fail.                                           *)

MaxWrites == 1

\* the first actor joined the workspace as VIEWER and the others as MEMBER
JoinedAsEither == [a \in 1..Len(Actors) |-> IF a = 1 THEN RoleViewer ELSE RoleMember]

SharedRemotes ==
    LET id == NewProjectId(0)
        name == deriveProjectName(Actors[1].email, Actors[1].userId)
    IN  { Remote(ps, ms, roles, MaxWrites) :
            ps \in {<<>>, <<Project(id, name)>>},
            ms \in {{}, {Membership(id, Actors[1].userId, RoleViewer)}},
            roles \in {JoinedAsEither} }
        \ { Remote(<<>>, ms, roles, MaxWrites) :
               ms \in {{Membership(id, Actors[1].userId, RoleViewer)}},
               roles \in {JoinedAsEither} }

\* two invocations, the first for the first actor and the second for any
SInit ==
    \E a \in 1..Len(Actors), remote \in SharedRemotes :
        PStart([r \in Runs |-> IF r = 2 THEN a ELSE 1], remote, PairOfRuns, MaxFaults - 1)

\* another writer deletes the i-th project of the workspace and its
\* memberships
OtherDeletes(i) ==
    /\ writesLeft > 0
    /\ i \in 1..Len(projects)
    /\ writesLeft' = writesLeft - 1
    /\ projects' = SubSeq(projects, 1, i - 1) \o SubSeq(projects, i + 1, Len(projects))
    /\ members' = {m \in members : m.projectId # projects[i].id}
    /\ UNCHANGED <<actorOf, ppc, pattempt, plastError, projectName, projectId, presult,
                   pfailure, created, faultsLeft, createErr, addErr, lookedUp, addArgs,
                   createdId, hadFailure, overlapped, firstEnded, workspaceRole>>
    /\ UNCHANGED <<qvars, dvars, cvars, nvars, vvars, hvars>>

\* a workspace holds the project that was there before and one for each run
MaxProjects == NumRuns + 1

\* the same workspaces when no other writer changes them
SettledRemotes == {[remote EXCEPT !.writes = 0] : remote \in SharedRemotes}

\* two invocations as in SInit, in a workspace that only they change and
\* that does not fail
TInit ==
    \E a \in 1..Len(Actors), remote \in SettledRemotes :
        PStart([r \in Runs |-> IF r = 2 THEN a ELSE 1], remote, PairOfRuns, 0)

\* the failures a projectCreate may meet here: a 403 of the remote, and a
\* request that does not reach it, which fetch rejects ("offline"); the
\* lookup and projectMemberAdd meet none
CreateFaultChoices == {"none", "forbidden", "offline"}

SNext ==
    \/ \E r \in Runs : ProvisionStart(r)
    \/ \E r \in Runs, f \in CreateFaultChoices, conflict \in ProjectConflictAnswers :
          ProvisionCreate(r, f, conflict)
    \/ \E r \in Runs : ProvisionLookup(r, "none")
    \/ \E r \in Runs, missing \in ProjectMissingAnswers : ProvisionAdd(r, "none", missing)
    \/ \E i \in 1..MaxProjects : OtherDeletes(i)

----------------------------------------------------------------------------
(* Provisioner.deriveProjectName on its own: every email over EmailChars  *)
(* of up to MaxEmailLen characters and the emails of the tests, with the   *)
(* last n <= MaxIdLen characters of IdText and the ids of the tests        *)

MaxEmailLen == 4
MaxIdLen == 7

EmailChars == {"a", "B", "-", ".", "@"}

TestEmails ==
    { <<"j","o","h","n",".","d","o","e","@","e","x","a","m","p","l","e",".","c","o","m">>,
      <<"J","o","h","n","_","D","o","e","+","t","e","s","t","@","e","x","a","m","p","l","e",".","c","o","m">>,
      <<".","j","o","h","n",".","@","e","x","a","m","p","l","e",".","c","o","m">>,
      <<"j","o","h","n",".",".","d","o","e","@","e","x","a","m","p","l","e",".","c","o","m">> }

IdText == <<"x","9","_","a","B","-","1","-">>

Strings(chars, n) == UNION {[1..k -> chars] : k \in 0..n}

LastChars(s, n) == IF n >= Len(s) THEN s ELSE SubSeq(s, Len(s) - n + 1, Len(s))

Emails == Strings(EmailChars, MaxEmailLen) \cup TestEmails

UserIds ==
    {LastChars(IdText, n) : n \in 0..MaxIdLen}
        \cup {<<"a","b","c","1","2","3">>, <<"u","s","e","r","-","a","b","c","d","e","f","1","2","3","4","5","6">>}

\* ids of other actors: one with the last six characters of a test id, one
\* without
OtherIds == {<<"z","z","-","a","b","c","1","2","3">>, <<"u","s","e","r","-","2">>}

DFrozen ==
    /\ dpc = "off"
    /\ demail = <<>>
    /\ duserId = <<>>
    /\ dotherId = <<>>
    /\ dname = <<>>
    /\ dotherName = <<>>

DInit ==
    /\ dpc = "input"
    /\ demail \in Emails
    /\ duserId \in UserIds
    /\ dotherId \in OtherIds
    /\ dname = <<>>
    /\ dotherName = <<>>

\* deriveProjectName is called for both actors
Derive ==
    /\ dpc = "input"
    /\ dpc' = "derived"
    /\ dname' = deriveProjectName(demail, duserId)
    /\ dotherName' = deriveProjectName(demail, dotherId)
    /\ UNCHANGED <<demail, duserId, dotherId>>
    /\ UNCHANGED <<qvars, pvars, rvars, cvars, nvars, vvars, hvars>>

DNext == Derive

----------------------------------------------------------------------------
(* NotificationSetup.ensureNotificationRule (src/unnamed/part_000, lines   *)
(* 1-71) against the notification rules of the remote workspace. Each      *)
(* client call returns, or throws what RailwayClient.query throws.         *)

MaxRules == 2
MaxEnsureRuns == 2

JoinedEvent == "WorkspaceMember.joined"
RemovedEvent == "WorkspaceMember.removed"

WorkspaceId == <<"w","s","-","1","2","3">>
Domain == <<"m","y","-","a","p","p",".","u","p",".","r","a","i","l","w","a","y",".","a","p","p">>
OtherUrl == <<"h","t","t","p","s",":","/","/","o","t","h","e","r",".","a","p","p","/","w","e","b","h","o","o","k">>
Secret == <<"s","3","c","r","e","t">>

NotSet == <<>>

\* `https://${this.config.publicDomain}/webhook`
webhookUrlInsecure == <<"h","t","t","p",":","/","/">> \o publicDomain \o <<"/","w","e","b","h","o","o","k">>
webhookUrl == <<"h","t","t","p","s",":","/","/">> \o publicDomain \o <<"/","w","e","b","h","o","o","k">>

\* a truthy string
TruthyAlways(str) == TRUE
Truthy(str) == str # <<>>

Channel(type, url) == [type |-> type, webhookUrl |-> url]
Rule(id, eventTypes, channels) == [id |-> id, eventTypes |-> eventTypes, channels |-> channels]
NoRule == Rule(<<>>, <<>>, <<>>)

\* the id of the n-th rule of the workspace
NewRuleId(n) == <<"r","u","l","e","-">> \o NumToStr(n)

\* rule.eventTypes.includes("WorkspaceMember.joined") &&
\* rule.channels.some(ch => ch.type === "webhook" && ch.webhookUrl === webhookUrl)
RuleMatchesUrlOnly(rule, url) ==
    \E c \in DOMAIN rule.channels : rule.channels[c].webhookUrl = url
RuleMatches(rule, url) ==
    /\ \E e \in DOMAIN rule.eventTypes : rule.eventTypes[e] = JoinedEvent
    /\ \E c \in DOMAIN rule.channels :
          rule.channels[c].type = "webhook" /\ rule.channels[c].webhookUrl = url

\* rules.find(...) ?? null
findLastRule(list, url) ==
    IF \E i \in DOMAIN list : RuleMatches(list[i], url)
    THEN list[CHOOSE i \in DOMAIN list :
                 RuleMatches(list[i], url) /\ \A j \in (i + 1)..Len(list) : ~RuleMatches(list[j], url)]
    ELSE NoRule
findExistingRule(list, url) ==
    IF \E i \in DOMAIN list : RuleMatches(list[i], url)
    THEN list[CHOOSE i \in DOMAIN list :
                 RuleMatches(list[i], url) /\ \A j \in 1..(i - 1) : ~RuleMatches(list[j], url)]
    ELSE NoRule

\* lines 23-38: where ensureNotificationRule goes with what findExistingRule
\* gave it
AfterFindNeverDeletes(found, secret) ==
    IF found # NoRule /\ ~Truthy(secret) THEN "return" ELSE "create"
AfterFind(found, secret) ==
    IF found # NoRule /\ Truthy(secret) THEN "delete"
    ELSE IF found # NoRule THEN "return"
    ELSE "create"

\* what notificationRuleDelete(id) leaves of the rules of the workspace
notificationRuleDelete(list, id) == SelectSeq(list, LAMBDA rule : rule.id # id)

\* railway-client.ts, lines 175-181: the input of the request that
\* notificationRuleCreate(workspaceId, webhookUrl) sends
notificationRuleCreate(workspaceId, url) ==
    [workspaceId |-> workspaceId,
     eventTypes |-> <<JoinedEvent>>,
     channelConfigs |-> <<[type |-> "webhook", webhookUrl |-> url]>>]

\* the rule the remote makes of notificationRuleCreate(workspaceId, webhookUrl, secret)
CreatedRule(n, url) == Rule(NewRuleId(n), <<JoinedEvent>>, <<Channel("webhook", url)>>)

\* the rules a workspace may hold before: matching ones, and ones that
\* match in the URL only, in the event type only, or in both but through a
\* channel that is no webhook
RuleShapes(url) ==
    { [eventTypes |-> <<JoinedEvent>>, channels |-> <<Channel("webhook", url)>>],
      [eventTypes |-> <<RemovedEvent, JoinedEvent>>,
       channels |-> <<Channel("email", NotSet), Channel("webhook", url)>>],
      [eventTypes |-> <<RemovedEvent>>, channels |-> <<Channel("webhook", url)>>],
      [eventTypes |-> <<JoinedEvent>>, channels |-> <<Channel("webhook", OtherUrl)>>],
      [eventTypes |-> <<JoinedEvent>>, channels |-> <<Channel("email", url)>>] }

InitialRules(url) ==
    UNION { { [i \in 1..n |-> Rule(NewRuleId(i), shapes[i].eventTypes, shapes[i].channels)] :
                shapes \in [1..n -> RuleShapes(url)] } : n \in 0..MaxRules }

\* one client call in the history
Call(op, workspaceId, id, url, secret, thrown) ==
    [op |-> op, workspaceId |-> workspaceId, id |-> id, url |-> url, secret |-> secret,
     thrown |-> thrown]

\* what a client call throws when the remote refuses the request, and when
\* the remote applied it and every answer was a 500
ErrRefused == RailwayAPIError(MsgApiError \o NumToStr(403) \o <<" ">> \o BodyForbidden, 403, <<>>)
ErrAnswerLost == RailwayAPIError(MsgReturned \o NumToStr(500), 500, <<>>)
CallError(f) == IF f = "refused" THEN ErrRefused ELSE IF f = "lost" THEN ErrAnswerLost ELSE NoError
CallFaults == {"none", "refused", "lost"}

NStart(pc, domain, secret, list) ==
    /\ publicDomain = domain
    /\ webhookSecret = secret
    /\ npc = pc
    /\ nruns = 0
    /\ rules = list
    /\ rulesMade = Len(list)
    /\ rulesBefore = list
    /\ existing = NoRule
    /\ nresult = NoRule
    /\ nfailure = NoError
    /\ ncalls = <<>>
    /\ nwarnings = 0
    /\ createInputs = <<>>

NFrozen == NStart("off", NotSet, NotSet, <<>>)

NInit ==
    \E domain \in {NotSet, Domain}, secret \in {NotSet, Secret} :
        \E list \in InitialRules(<<"h","t","t","p","s",":","/","/">> \o Domain \o <<"/","w","e","b","h","o","o","k">>) :
            NStart("start", domain, secret, list)

\* ensureNotificationRule throws err
NThrow(err) ==
    /\ npc' = "thrown"
    /\ nfailure' = err
    /\ UNCHANGED nresult

\* ensureNotificationRule returns rule
NReturn(rule) ==
    /\ npc' = "returned"
    /\ nresult' = rule
    /\ UNCHANGED nfailure

\* lines 11-19: ensureNotificationRule is invoked
EnsureStart ==
    /\ npc = "start"
    /\ nruns' = nruns + 1
    /\ rulesBefore' = rules
    /\ IF ~Truthy(publicDomain)
       THEN /\ nwarnings' = nwarnings + 1
            /\ NReturn(NoRule)
       ELSE /\ npc' = "list"
            /\ UNCHANGED <<nwarnings, nresult, nfailure>>
    /\ UNCHANGED <<rules, rulesMade, existing, ncalls, createInputs>>
    /\ UNCHANGED <<qvars, pvars, rvars, dvars, cvars, vvars, hvars>>

\* lines 21-36 and 53-70: findExistingRule, and what follows its result
EnsureList(f) ==
    LET found == findExistingRule(rules, webhookUrl) IN
    /\ npc = "list"
    /\ f \in {"none", "refused"}
    /\ ncalls' = Append(ncalls, Call("list", WorkspaceId, NotSet, NotSet, NotSet, f # "none"))
    /\ IF f # "none"
       THEN /\ NThrow(CallError(f))
            /\ UNCHANGED existing
       ELSE /\ existing' = found
            /\ IF AfterFind(found, webhookSecret) = "return"
               THEN NReturn(found)
               ELSE /\ npc' = AfterFind(found, webhookSecret)
                    /\ UNCHANGED <<nresult, nfailure>>
    /\ UNCHANGED <<nruns, rules, rulesMade, rulesBefore, nwarnings, createInputs>>
    /\ UNCHANGED <<qvars, pvars, rvars, dvars, cvars, vvars, hvars>>

\* line 29: await this.client.notificationRuleDelete(existing.id)
EnsureDelete(f) ==
    /\ npc = "delete"
    /\ ncalls' = Append(ncalls, Call("delete", NotSet, existing.id, NotSet, NotSet, f # "none"))
    /\ rules' = IF f = "refused" THEN rules ELSE notificationRuleDelete(rules, existing.id)
    /\ IF f # "none"
       THEN NThrow(CallError(f))
       ELSE npc' = "create" /\ UNCHANGED <<nresult, nfailure>>
    /\ UNCHANGED <<nruns, rulesMade, rulesBefore, existing, nwarnings, createInputs>>
    /\ UNCHANGED <<qvars, pvars, rvars, dvars, cvars, vvars, hvars>>

\* lines 38-50: notificationRuleCreate(workspaceId, webhookUrl, webhookSecret)
EnsureCreate(f) ==
    LET made == CreatedRule(rulesMade + 1, webhookUrl) IN
    /\ npc = "create"
    /\ ncalls' = Append(ncalls, Call("create", WorkspaceId, NotSet, webhookUrl, webhookSecret, f # "none"))
    /\ rules' = IF f = "refused" THEN rules ELSE Append(rules, made)
    /\ rulesMade' = IF f = "refused" THEN rulesMade ELSE rulesMade + 1
    /\ createInputs' = Append(createInputs, notificationRuleCreate(WorkspaceId, webhookUrl))
    /\ IF f # "none" THEN NThrow(CallError(f)) ELSE NReturn(made)
    /\ UNCHANGED <<nruns, rulesBefore, existing, nwarnings>>
    /\ UNCHANGED <<qvars, pvars, rvars, dvars, cvars, vvars, hvars>>

\* the process stops while ensureNotificationRule awaits a client call
EnsureCrash ==
    /\ npc \in {"list", "delete", "create"}
    /\ npc' = "crashed"
    /\ UNCHANGED <<nruns, rules, rulesMade, rulesBefore, existing, nresult, nfailure, ncalls,
                   nwarnings, createInputs>>
    /\ UNCHANGED <<qvars, pvars, rvars, dvars, cvars, vvars, hvars>>

\* the service restarts and ensureNotificationRule is invoked again
EnsureAgain ==
    /\ npc \in {"returned", "thrown", "crashed"}
    /\ nruns < MaxEnsureRuns
    /\ npc' = "start"
    /\ existing' = NoRule
    /\ nresult' = NoRule
    /\ nfailure' = NoError
    /\ ncalls' = <<>>
    /\ nwarnings' = 0
    /\ UNCHANGED <<nruns, rules, rulesMade, rulesBefore, createInputs>>
    /\ UNCHANGED <<qvars, pvars, rvars, dvars, cvars, vvars, hvars>>

NNext ==
    \/ EnsureStart
    \/ \E f \in CallFaults : EnsureList(f)
    \/ \E f \in CallFaults : EnsureDelete(f)
    \/ \E f \in CallFaults : EnsureCreate(f)
    \/ EnsureCrash
    \/ EnsureAgain

----------------------------------------------------------------------------
(* The values a request body decodes to, and WebhookHandler.validatePayload *)
(* (src/src/handlers/webhook.ts, lines 77-89). A value has a kind, the     *)
(* text of a string or number, and the properties of an object or array in *)
(* their order.                                                            *)

Value(t, str, props) == [t |-> t, s |-> str, f |-> props]
Prop(k, v) == [k |-> k, v |-> v]

JsUndefined == Value("undefined", <<>>, <<>>)
JsNull == Value("null", <<>>, <<>>)
JsString(str) == Value("string", str, <<>>)
JsNumber(digits) == Value("number", digits, <<>>)
JsBoolean(b) == Value("boolean", b, <<>>)
JsArray(props) == Value("array", <<>>, props)
JsObject(props) == Value("object", <<>>, props)

\* typeof v
TypeOf(v) == IF v.t \in {"null", "array", "object"} THEN "object" ELSE v.t

\* v[k] of a value that has properties
Get(v, k) ==
    IF \E i \in DOMAIN v.f : v.f[i].k = k
    THEN v.f[CHOOSE i \in DOMAIN v.f : v.f[i].k = k /\ \A j \in (i + 1)..Len(v.f) : v.f[j].k # k].v
    ELSE JsUndefined

\* reading a property of null or undefined throws a TypeError
HasProps(v) == v.t \notin {"null", "undefined"}

KeyType == <<"t","y","p","e">>
KeyDetails == <<"d","e","t","a","i","l","s">>
KeyUserId == <<"u","s","e","r","I","d">>
KeyEmail == <<"e","m","a","i","l">>
KeyRole == <<"r","o","l","e">>
KeyResource == <<"r","e","s","o","u","r","c","e">>
KeyWorkspace == <<"w","o","r","k","s","p","a","c","e">>
KeyId == <<"i","d">>
KeyName == <<"n","a","m","e">>

TypeJoined == <<"W","o","r","k","s","p","a","c","e","M","e","m","b","e","r",".","j","o","i","n","e","d">>
TypeRemoved == <<"W","o","r","k","s","p","a","c","e","M","e","m","b","e","r",".","r","e","m","o","v","e","d">>
TypeTest == <<"t","e","s","t">>
WorkspaceName == <<"T","e","s","t"," ","W","o","r","k","s","p","a","c","e">>

\* typeof v !== "object" || v === null
NotAnObjectLoose(v) == TypeOf(v) # "object"
NotAnObject(v) == TypeOf(v) # "object" \/ v.t = "null"

\* the checks of validatePayload: "pass", "false" when it makes
\* validatePayload return false, "TypeError" when evaluating it throws
IsObject(v) == IF NotAnObject(v) THEN "false" ELSE "pass"
StringProp(v, k) ==
    IF ~HasProps(v) THEN "TypeError"
    ELSE IF TypeOf(Get(v, k)) # "string" THEN "false" ELSE "pass"
ObjectProp(v, k) ==
    IF ~HasProps(v) THEN "TypeError"
    ELSE IF NotAnObject(Get(v, k)) THEN "false" ELSE "pass"

\* lines 77-89, in the order of evaluation
validatePayloadChecks(body) ==
    LET details == Get(body, KeyDetails)
        resource == Get(body, KeyResource)
        workspace == Get(resource, KeyWorkspace)
    IN  << IsObject(body),
           StringProp(body, KeyType),
           ObjectProp(body, KeyDetails),
           StringProp(details, KeyUserId),
           StringProp(details, KeyEmail),
           ObjectProp(body, KeyResource),
           ObjectProp(resource, KeyWorkspace),
           StringProp(workspace, KeyId) >>

validatePayload(body) ==
    LET checks == validatePayloadChecks(body)
        failed == {i \in DOMAIN checks : checks[i] # "pass"}
    IN  IF failed = {} THEN "true"
        ELSE checks[CHOOSE i \in failed : \A j \in failed : i <= j]

\* the payload of an event of the given type about an actor
WebhookPayload(type, actor) ==
    JsObject(<< Prop(KeyType, JsString(type)),
                Prop(KeyDetails, JsObject(<< Prop(KeyUserId, JsString(Actors[actor].userId)),
                                             Prop(KeyEmail, JsString(Actors[actor].email)),
                                             Prop(KeyRole, JsString(RoleViewer)) >>)),
                Prop(KeyResource, JsObject(<< Prop(KeyWorkspace,
                    JsObject(<< Prop(KeyId, JsString(WorkspaceId)),
                                Prop(KeyName, JsString(WorkspaceName)) >>)) >>)) >>)

\* v with the property at the path replaced by w, or removed when w is
\* undefined; the empty path is v itself
RECURSIVE Replace(_, _, _)
Replace(v, path, w) ==
    IF path = <<>> THEN w
    ELSE IF Len(path) = 1 /\ w = JsUndefined
    THEN [v EXCEPT !.f = SelectSeq(v.f, LAMBDA p : p.k # path[1])]
    ELSE [v EXCEPT !.f = [i \in DOMAIN v.f |->
              IF v.f[i].k = path[1]
              THEN Prop(path[1], Replace(v.f[i].v, Tail(path), w))
              ELSE v.f[i]]]

\* the places of a payload that validatePayload looks at
Paths ==
    << <<>>, <<KeyType>>, <<KeyDetails>>, <<KeyDetails, KeyUserId>>, <<KeyDetails, KeyEmail>>,
       <<KeyResource>>, <<KeyResource, KeyWorkspace>>, <<KeyResource, KeyWorkspace, KeyId>> >>

\* what may stand at such a place instead
Replacements ==
    << JsUndefined, JsNull, JsNumber(<<"4","2">>), JsBoolean(<<"t","r","u","e">>),
       JsString(TypeTest), JsArray(<<>>), JsArray(<<Prop(<<"0">>, JsString(TypeTest))>>),
       JsObject(<<>>) >>

BasePayloads == <<WebhookPayload(TypeJoined, 1), WebhookPayload(TypeRemoved, 2)>>

\* the arguments of validatePayload: the payloads of the events and each of
\* them with one place replaced
NumVariants == Len(Paths) * Len(Replacements)
Payloads ==
    [i \in 1..(Len(BasePayloads) * (NumVariants + 1)) |->
        LET b == ((i - 1) \div (NumVariants + 1)) + 1
            n == (i - 1) % (NumVariants + 1)
        IN  IF n = 0 THEN BasePayloads[b]
            ELSE Replace(BasePayloads[b], Paths[((n - 1) \div Len(Replacements)) + 1],
                         Replacements[((n - 1) % Len(Replacements)) + 1])]

VStart(pc, i) ==
    /\ vpc = pc
    /\ vinput = i
    /\ vanswer = "none"

VFrozen == VStart("off", 1)

VInit == \E i \in DOMAIN Payloads : VStart("called", i)

\* lines 77-89: validatePayload(body)
Validate ==
    /\ vpc = "called"
    /\ vpc' = "returned"
    /\ vanswer' = validatePayload(Payloads[vinput])
    /\ UNCHANGED vinput
    /\ UNCHANGED <<qvars, pvars, rvars, dvars, cvars, nvars, hvars>>

VNext == Validate

----------------------------------------------------------------------------
(* WebhookHandler.handleWebhook (src/src/handlers/webhook.ts)              *)

NoHeader == [present |-> FALSE, value |-> <<>>]
Header(value) == [present |-> TRUE, value |-> value]

KeyError == <<"e","r","r","o","r">>
KeyStatus == <<"s","t","a","t","u","s">>
KeyMessage == <<"m","e","s","s","a","g","e">>
KeyProjectId == <<"p","r","o","j","e","c","t","I","d">>
KeyProjectName == <<"p","r","o","j","e","c","t","N","a","m","e">>
KeyWorkspaceRole == <<"w","o","r","k","s","p","a","c","e","R","o","l","e">>
KeyProjectRole == <<"p","r","o","j","e","c","t","R","o","l","e">>

MsgInvalidJson == <<"I","n","v","a","l","i","d"," ","J","S","O","N">>
MsgInvalidSignature == <<"I","n","v","a","l","i","d"," ","s","i","g","n","a","t","u","r","e">>
MsgInvalidPayload == <<"I","n","v","a","l","i","d"," ","p","a","y","l","o","a","d">>
MsgIgnored == <<"i","g","n","o","r","e","d">>
MsgProvisioned == <<"p","r","o","v","i","s","i","o","n","e","d">>
MsgProvisioningFailed == <<"P","r","o","v","i","s","i","o","n","i","n","g"," ","f","a","i","l","e","d">>

\* Response.json(body, { status })
Respond(status, props) == [status |-> status, body |-> JsObject(props)]
NoResponse == [status |-> 0, body |-> JsUndefined]

\* JSON.stringify
RECURSIVE Stringify(_)
RECURSIVE StringifyProps(_, _)
StringifyProps(props, named) ==
    IF props = <<>> THEN <<>>
    ELSE (IF named THEN <<"\"">> \o props[1].k \o <<"\"", ":">> ELSE <<>>)
         \o Stringify(props[1].v)
         \o (IF Len(props) > 1 THEN <<",">> ELSE <<>>)
         \o StringifyProps(Tail(props), named)
Stringify(v) ==
    IF v.t = "string" THEN <<"\"">> \o v.s \o <<"\"">>
    ELSE IF v.t \in {"number", "boolean"} THEN v.s
    ELSE IF v.t = "array" THEN <<"[">> \o StringifyProps(v.f, FALSE) \o <<"]">>
    ELSE IF v.t = "object" THEN <<"{">> \o StringifyProps(v.f, TRUE) \o <<"}">>
    ELSE <<"n","u","l","l">>

\* the documents of the request bodies: the payloads of three events, the
\* bodies of the tests that lack fields or hold a number for a string, and
\* null
Documents ==
    << WebhookPayload(TypeJoined, 1),
       WebhookPayload(TypeJoined, 3),
       WebhookPayload(TypeRemoved, 2),
       JsObject(<<Prop(KeyType, JsString(TypeJoined))>>),
       Replace(WebhookPayload(TypeJoined, 1), <<KeyResource>>, JsUndefined),
       Replace(WebhookPayload(TypeRemoved, 1), <<KeyDetails, KeyUserId>>, JsNumber(<<"1","2","3">>)),
       JsNull >>

\* bodies that are no JSON text
NotJson == <<"n","o","t"," ","j","s","o","n">>
Truncated(text) == SubSeq(text, 1, Len(text) - 1)

RequestBodies ==
    {Stringify(Documents[i]) : i \in DOMAIN Documents}
        \cup {NotJson, Truncated(Stringify(Documents[1]))}

\* JSON.parse(rawBody): the document of the text, or a SyntaxError
JsonParse(text) ==
    IF \E i \in DOMAIN Documents : Stringify(Documents[i]) = text
    THEN [ok |-> TRUE,
          value |-> Documents[CHOOSE i \in DOMAIN Documents : Stringify(Documents[i]) = text]]
    ELSE [ok |-> FALSE, value |-> JsUndefined]

\* the keyed digest of a text, in lower-case hexadecimal digits: a short
\* stand-in for HMAC-SHA256 that depends on every character of the key and
\* of the text
Alphabet == <<" ","!","\"","#","$","%","&","'","(",")","*","+",",","-",".","/","0","1","2","3","4","5","6","7","8","9",":",";","<","=",">","?","@","A","B","C","D","E","F","G","H","I","J","K","L","M","N","O","P","Q","R","S","T","U","V","W","X","Y","Z","[","]","^","_","a","b","c","d","e","f","g","h","i","j","k","l","m","n","o","p","q","r","s","t","u","v","w","x","y","z","{","|","}","~">>
HexDigits == <<"0","1","2","3","4","5","6","7","8","9","a","b","c","d","e","f">>
DigestDigits == 3
DigestModulus == 16 ^ DigestDigits
CharCode(c) == CHOOSE i \in DOMAIN Alphabet : Alphabet[i] = c
RECURSIVE PowMod(_, _)
PowMod(b, e) ==
    IF e = 0 THEN 1
    ELSE LET half == PowMod(b, e \div 2)
         IN  (((half * half) % DigestModulus) * (IF e % 2 = 1 THEN b ELSE 1)) % DigestModulus
\* the characters lo..hi of the text as the digits of a number to the base 31
RECURSIVE Mix(_, _, _)
Mix(text, lo, hi) ==
    IF lo > hi THEN 0
    ELSE IF lo = hi THEN CharCode(text[lo])
    ELSE LET mid == (lo + hi) \div 2
         IN  (Mix(text, lo, mid) * PowMod(31, hi - mid) + Mix(text, mid + 1, hi)) % DigestModulus
ToHex(n) == [i \in 1..DigestDigits |-> HexDigits[((n \div (16 ^ (DigestDigits - i))) % 16) + 1]]
Sign(secret, text) == ToHex(Mix(secret \o text \o secret, 1, 2 * Len(secret) + Len(text)))

\* the same digits in upper case
UpperHex(hex) ==
    [i \in DOMAIN hex |->
        IF \E j \in 11..16 : HexDigits[j] = hex[i]
        THEN Alphabet[CharCode(hex[i]) - 32]
        ELSE hex[i]]

OtherSecret == <<"m","y","-","s","e","c","r","e","t">>
InvalidSig == <<"i","n","v","a","l","i","d","-","s","i","g">>

\* the x-webhook-signature headers a request may carry: none, an empty one,
\* the digest under the secret, the same in upper case, the digest under
\* another secret and one that is no digest
HeaderChoices(text) ==
    {NoHeader, Header(<<>>), Header(Sign(Secret, text)), Header(UpperHex(Sign(Secret, text))),
     Header(Sign(OtherSecret, text)), Header(InvalidSig)}

\* lines 60-75: verifySignature(req, rawBody)
verifySignature(sig, secret, text) ==
    IF ~sig.present \/ ~Truthy(sig.value) \/ ~Truthy(secret) THEN FALSE
    ELSE sig.value = Sign(secret, text)

\* line 21: if (this.config.webhookSecret)
NeedsVerificationAlways(secret) == TRUE
NeedsVerification(secret) == Truthy(secret)

\* line 36: payload.type !== "WorkspaceMember.joined"
IsJoinedAlways(type) == TRUE
IsJoined(type) == type = TypeJoined

\* the responses of lines 18, 25, 31, 38, 47 and 53-56
InvalidJsonResponse == Respond(400, <<Prop(KeyError, JsString(MsgInvalidJson))>>)
InvalidSignatureResponse == Respond(401, <<Prop(KeyError, JsString(MsgInvalidSignature))>>)
InvalidPayloadResponseOk == Respond(200, <<Prop(KeyError, JsString(MsgInvalidPayload))>>)
InvalidPayloadResponse == Respond(400, <<Prop(KeyError, JsString(MsgInvalidPayload))>>)
IgnoredResponse(type) ==
    Respond(200, <<Prop(KeyStatus, JsString(MsgIgnored)), Prop(KeyType, type)>>)
ProvisionedResponse(result) ==
    Respond(200, << Prop(KeyStatus, JsString(MsgProvisioned)),
                    Prop(KeyUserId, JsString(result.userId)),
                    Prop(KeyEmail, JsString(result.email)),
                    Prop(KeyProjectId, JsString(result.projectId)),
                    Prop(KeyProjectName, JsString(result.projectName)),
                    Prop(KeyWorkspaceRole, JsString(result.workspaceRole)),
                    Prop(KeyProjectRole, JsString(result.projectRole)) >>)
ProvisioningFailedResponseBare(err) ==
    Respond(500, <<Prop(KeyError, JsString(MsgProvisioningFailed))>>)
ProvisioningFailedResponse(err) ==
    Respond(500, << Prop(KeyError, JsString(MsgProvisioningFailed)),
                    Prop(KeyMessage, JsString(err.message)) >>)

\* lines 42-46: the arguments of provisioner.provision
ProvisionArgs(payload) ==
    << Get(Get(payload, KeyDetails), KeyUserId).s,
       Get(Get(payload, KeyDetails), KeyEmail).s,
       Get(Get(Get(payload, KeyResource), KeyWorkspace), KeyId).s >>

\* the actor with the userId and the email
ActorFor(userId, email) ==
    CHOOSE a \in 1..Len(Actors) : Actors[a].userId = userId /\ Actors[a].email = email

\* the run of Provisioner.provision that handleWebhook awaits
HandlerRun == 1

HStart(pc, body, sig) ==
    /\ hpc = pc
    /\ rawBody = body
    /\ signature = sig
    /\ response = NoResponse
    /\ verified = 0
    /\ provisioned = <<>>

HFrozen == HStart("off", <<>>, NoHeader)

\* a request to a handler with or without a secret, in a workspace that is
\* empty or holds the project of the first actor, and that may fail one of
\* the client calls of provision on its own
HInit ==
    /\ \E secret \in {NotSet, Secret} : NStart("off", NotSet, secret, <<>>)
    /\ \E text \in RequestBodies : \E sig \in HeaderChoices(text) : HStart("received", text, sig)
    /\ \E remote \in SettledRemotes :
          PStart([r \in Runs |-> 1], remote, {}, MaxFaults - 1)

\* handleWebhook returns the response
HRespond(r) ==
    /\ hpc' = "responded"
    /\ response' = r
    /\ UNCHANGED <<provisioned, pvars>>

\* lines 11-46: handleWebhook up to its response or to the call of
\* provisioner.provision
HandleRequest ==
    LET parsed == JsonParse(rawBody)
        body == parsed.value
        verifies == parsed.ok /\ NeedsVerification(webhookSecret)
        isValid == verifySignature(signature, webhookSecret, rawBody)
        args == ProvisionArgs(body)
    IN
    /\ hpc = "received"
    /\ verified' = IF verifies THEN verified + 1 ELSE verified
    /\ IF ~parsed.ok THEN HRespond(InvalidJsonResponse)
       ELSE IF verifies /\ ~isValid THEN HRespond(InvalidSignatureResponse)
       ELSE IF validatePayload(body) = "false" THEN HRespond(InvalidPayloadResponse)
       ELSE IF validatePayload(body) = "TypeError"
       THEN /\ hpc' = "thrown"
            /\ UNCHANGED <<response, provisioned, pvars>>
       ELSE IF ~IsJoined(Get(body, KeyType).s) THEN HRespond(IgnoredResponse(Get(body, KeyType)))
       ELSE /\ hpc' = "provisioning"
            /\ provisioned' = Append(provisioned, args)
            /\ ppc' = [ppc EXCEPT ![HandlerRun] = "idle"]
            /\ actorOf' = [actorOf EXCEPT ![HandlerRun] = ActorFor(args[1], args[2])]
            /\ UNCHANGED <<response, pattempt, plastError, projectName, projectId, presult,
                           pfailure, projects, members, created, faultsLeft, createErr, addErr,
                           lookedUp, addArgs, createdId, hadFailure, overlapped, firstEnded>>
    /\ UNCHANGED <<rawBody, signature>>
    /\ UNCHANGED <<qvars, rvars, dvars, cvars, nvars, vvars>>

\* lines 47-57: provision has resolved or rejected
HandleSettled ==
    /\ hpc = "provisioning"
    /\ Ended(HandlerRun)
    /\ hpc' = "responded"
    /\ response' = IF ppc[HandlerRun] = "done"
                    THEN ProvisionedResponse(presult[HandlerRun])
                    ELSE ProvisioningFailedResponse(pfailure[HandlerRun])
    /\ UNCHANGED <<rawBody, signature, verified, provisioned>>
    /\ UNCHANGED <<qvars, pvars, rvars, dvars, cvars, nvars, vvars>>

HNext ==
    \/ HandleRequest
    \/ HandleSettled
    \/ PNext

----------------------------------------------------------------------------
(* The specifications *)

\* one call of RailwayClient.query, no provisioning run
Init == QInit /\ PFrozen /\ DFrozen /\ NFrozen /\ VFrozen /\ HFrozen
Spec == Init /\ [][QNext]_vars

\* two invocations of Provisioner.provision against a remote that may fail
InitProvision == QInit /\ PInit /\ DFrozen /\ NFrozen /\ VFrozen /\ HFrozen
SpecProvision == InitProvision /\ [][PNext]_vars

\* NumRuns concurrent invocations of Provisioner.provision against a remote
\* whose only rejections are the already-exists ones
InitConcurrent == QInit /\ CInit /\ DFrozen /\ NFrozen /\ VFrozen /\ HFrozen
SpecConcurrent == InitConcurrent /\ [][PNext]_vars

\* two invocations of Provisioner.provision in a workspace shared with others
InitShared == QInit /\ SInit /\ DFrozen /\ NFrozen /\ VFrozen /\ HFrozen
SpecShared == InitShared /\ [][SNext]_vars

\* two invocations of Provisioner.provision in a workspace that held a
\* project or a membership before and that nobody else changes
InitSettled == QInit /\ TInit /\ DFrozen /\ NFrozen /\ VFrozen /\ HFrozen
SpecSettled == InitSettled /\ [][PNext]_vars

\* calls of WebhookHandler.validatePayload
InitValidate == QInit /\ PFrozen /\ DFrozen /\ NFrozen /\ VInit /\ HFrozen
SpecValidate == InitValidate /\ [][VNext]_vars

\* requests to WebhookHandler.handleWebhook
InitWebhook == QInit /\ DFrozen /\ VFrozen /\ HInit
SpecWebhook == InitWebhook /\ [][HNext]_vars

\* invocations of NotificationSetup.ensureNotificationRule
InitNotify == QInit /\ PFrozen /\ DFrozen /\ NInit /\ VFrozen /\ HFrozen
SpecNotify == InitNotify /\ [][NNext]_vars

\* calls of Provisioner.deriveProjectName
InitDerive == QInit /\ PFrozen /\ DInit /\ NFrozen /\ VFrozen /\ HFrozen
SpecDerive == InitDerive /\ [][DNext]_vars

----------------------------------------------------------------------------
(* Properties of RailwayClient.query *)

QueryDone == qpc \in {"returned", "thrown"}

\* the response is a complete HTTP response with a retryable status
RetryableResponse(o) == ~o.net /\ (o.status = 429 \/ o.status >= 500)

\* the response is a 2xx GraphQL answer without errors
SuccessResponse(o) ==
    ~o.net /\ o.status >= 200 /\ o.status <= 299 /\ o.parses /\ o.errors = <<>>

\* the response has a non-2xx status that is neither 429 nor 5xx
TerminalResponse(o) ==
    ~o.net /\ ~(o.status >= 200 /\ o.status <= 299) /\ o.status # 429 /\ o.status < 500

\* the response is a 2xx GraphQL answer with a non-empty errors array
GraphQLErrorResponse(o) ==
    ~o.net /\ o.status >= 200 /\ o.status <= 299 /\ o.parses /\ o.errors # <<>>

\* the attempt failed in a way the loop retries
RetriedFailure(o) ==
    o.net \/ RetryableResponse(o) \/ (o.status >= 200 /\ o.status <= 299 /\ ~o.parses)

\* C1: one call of query performs at most 4 fetches; when every response is
\* retryable (429 or >= 500) the call cannot end before its 4th fetch, and it
\* ends by throwing.
C1_AtMostFourFetches ==
    /\ Len(responses) <= 4
    /\ (QueryDone /\ \A i \in 1..Len(responses) : RetryableResponse(responses[i]))
         => (Len(responses) = 4 /\ qpc = "thrown" /\ qresult.kind = "throw")

C1_Witness ==
    /\ qpc = "thrown"
    /\ Len(responses) = 4
    /\ \A i \in 1..4 : ~responses[i].net /\ responses[i].status = 503

\* C2: after k <= 3 retryable responses the call is still running (it makes
\* fetch k+1), and when response k+1 is a 2xx answer without GraphQL errors
\* the call has returned that response's data after exactly k+1 fetches.
C2_RetryThenSuccess ==
    \A k \in 0..3 :
        /\ (Len(responses) = k /\ \A i \in 1..k : RetryableResponse(responses[i]))
             => qpc \in {"loop", "fetch"}
        /\ (/\ Len(responses) >= k + 1
            /\ \A i \in 1..k : RetryableResponse(responses[i])
            /\ SuccessResponse(responses[k + 1]))
             => (/\ Len(responses) = k + 1
                 /\ qpc = "returned"
                 /\ qresult.kind = "return"
                 /\ qresult.data = responses[k + 1].data)

C2_Witness ==
    /\ Len(responses) = 3
    /\ responses[1].status = 429 /\ responses[2].status = 429
    /\ SuccessResponse(responses[3])
    /\ responses[3].data = "data1"
    /\ qpc = "returned"

\* C3: a response with a non-2xx status other than 429 and below 500 ends
\* the call at once, on whatever attempt: it is the last fetch, nothing is
\* slept after it, and the call has thrown a RailwayAPIError with that status.
C3_TerminalStatusThrowsAtOnce ==
    \A i \in 1..Len(responses) :
        TerminalResponse(responses[i])
        => /\ i = Len(responses)
           /\ qlog[Len(qlog)].ev = "fetch"
           /\ qpc = "thrown"
           /\ qresult.kind = "throw"
           /\ qresult.error.name = "RailwayAPIError"
           /\ qresult.error.statusCode = responses[i].status

C3_Witness ==
    /\ Len(responses) = 3
    /\ RetryableResponse(responses[1]) /\ RetryableResponse(responses[2])
    /\ responses[3].status = 403 /\ ~responses[3].net
    /\ qpc = "thrown"
    /\ qresult.error.statusCode = 403

\* C4: a 2xx response with a non-empty errors array ends the call at once:
\* no fetch follows it, and the call has thrown a RailwayAPIError whose
\* message is "GraphQL error: " followed by the first error's message.
C4_GraphQLErrorNotRetried ==
    \A i \in 1..Len(responses) :
        GraphQLErrorResponse(responses[i])
        => /\ i = Len(responses)
           /\ qlog[Len(qlog)].ev = "fetch"
           /\ qpc = "thrown"
           /\ qresult.kind = "throw"
           /\ qresult.error.name = "RailwayAPIError"
           /\ qresult.error.message =
                <<"G","r","a","p","h","Q","L"," ","e","r","r","o","r",":"," ">>
                \o responses[i].errors[1]

C4_Witness ==
    /\ Len(responses) = 2
    /\ responses[1].net
    /\ GraphQLErrorResponse(responses[2])
    /\ Len(responses[2].errors) = 2
    /\ qpc = "thrown"

\* C5: when all 4 attempts failed in a retried way the error thrown is the
\* failure of the 4th attempt (its status and message, or the error its
\* fetch rejected with), never the placeholder; and the call returns a value
\* only when its last fetch gave a 2xx answer without GraphQL errors.
C5_LastFailureIsThrown ==
    /\ (/\ QueryDone
        /\ Len(responses) = 4
        /\ \A i \in 1..4 : RetriedFailure(responses[i]))
        => /\ qpc = "thrown"
           /\ qresult.kind = "throw"
           /\ qresult.error.message #
                <<"R","a","i","l","w","a","y"," ","A","P","I"," ","r","e","q","u","e","s","t"," ","f","a","i","l","e","d"," ","a","f","t","e","r"," ","r","e","t","r","i","e","s">>
           /\ RetryableResponse(responses[4])
                => /\ qresult.error.name = "RailwayAPIError"
                   /\ qresult.error.statusCode = responses[4].status
                   /\ qresult.error.message =
                        <<"R","a","i","l","w","a","y"," ","A","P","I"," ","r","e","t","u","r","n","e","d"," ">>
                        \o NumToStr(responses[4].status)
           /\ responses[4].net => qresult.error.name = "TypeError"
           /\ (~responses[4].net /\ ~RetryableResponse(responses[4]))
                => qresult.error.name = "SyntaxError"
    /\ (qpc = "returned" \/ qresult.kind = "return")
        => /\ Len(responses) >= 1
           /\ SuccessResponse(responses[Len(responses)])

C5_Witness ==
    /\ qpc = "thrown"
    /\ Len(responses) = 4
    /\ responses[1].net
    /\ responses[2].status = 500 /\ responses[3].status = 429
    /\ responses[4].status = 503 /\ ~responses[4].net
    /\ qresult.error.statusCode = 503

\* the delays slept so far, in order
SleptDelays == [i \in 1..Cardinality({j \in 1..Len(qlog) : qlog[j].ev = "sleep"}) |->
                 qlog[CHOOSE j \in 1..Len(qlog) :
                        /\ qlog[j].ev = "sleep"
                        /\ Cardinality({h \in 1..j : qlog[h].ev = "sleep"}) = i].delay]

\* 500 * 2^(n-1), capped at 5000
ClaimedDelay(n) == IF 500 * 2 ^ (n - 1) <= 5000 THEN 500 * 2 ^ (n - 1) ELSE 5000

\* C6: nothing is slept before the first fetch; the fetch of retry n >= 1 is
\* preceded by a warning and a sleep of min(500 * 2^(n-1), 5000) ms, both for
\* attempt n; the delays slept are 500, 1000, 2000 in this order, none above
\* 5000.
C6_BackoffDelays ==
    /\ Len(qlog) >= 1 => qlog[1].ev = "fetch" /\ qlog[1].attempt = 0
    /\ \A j \in 1..Len(qlog) :
        /\ qlog[j].ev = "sleep"
            => /\ qlog[j].attempt >= 1
               /\ qlog[j].delay = ClaimedDelay(qlog[j].attempt)
               /\ qlog[j].delay <= 5000
               /\ j > 1 /\ qlog[j - 1] = [qlog[j] EXCEPT !.ev = "warn"]
        /\ (qlog[j].ev = "fetch" /\ qlog[j].attempt >= 1)
            => /\ j > 1
               /\ qlog[j - 1].ev = "sleep"
               /\ qlog[j - 1].attempt = qlog[j].attempt
        /\ (qlog[j].ev = "fetch" /\ qlog[j].attempt = 0) => j = 1
    /\ Len(SleptDelays) <= 3
    /\ SleptDelays = SubSeq(<<500, 1000, 2000>>, 1, Len(SleptDelays))

C6_Witness ==
    /\ SleptDelays = <<500, 1000, 2000>>
    /\ Len(responses) = 4

----------------------------------------------------------------------------
(* Properties of Provisioner.provision *)

Invoked(r) == ppc[r] # "off"

\* both runs are invocations for the same (userId, email, workspaceId)
SameEvent(r, q) == r # q /\ Invoked(r) /\ Invoked(q) /\ actorOf[r] = actorOf[q]

\* the number of projects of that name in the workspace
ProjectsNamed(name) == Cardinality({i \in 1..Len(projects) : projects[i].name = name})

\* the error is a RailwayAPIError that says the resource already exists
AlreadyExistsError(err) ==
    /\ err.name = "RailwayAPIError"
    /\ Includes(ToLowerCase(err.message), <<"a","l","r","e","a","d","y"," ","e","x","i","s","t","s">>)

\* the error is a RailwayAPIError whose lower-cased message contains
\* "duplicate", "already exists" or "unique"
DuplicateMarkedError(err) ==
    /\ err.name = "RailwayAPIError"
    /\ \E mark \in {<<"d","u","p","l","i","c","a","t","e">>,
                    <<"a","l","r","e","a","d","y"," ","e","x","i","s","t","s">>,
                    <<"u","n","i","q","u","e">>} :
          Includes(ToLowerCase(err.message), mark)

\* C7: when a first invocation returned the project it created, the remote
\* still holds that project, and both the projectCreate and the
\* projectMemberAdd of a second invocation for the same (userId, email,
\* workspaceId) fail with an already-exists error, the second invocation
\* returns a result with the projectId of the first.
C7_ReplayReturnsSameProject ==
    \A r1 \in Runs, r2 \in Runs :
        (/\ SameEvent(r1, r2)
         /\ ppc[r1] = "done"
         /\ presult[r1].projectId = createdId[r1]
         /\ HasProjectId(createdId[r1])
         /\ DuplicateMarkedError(createErr[r2])
         /\ AlreadyExistsError(addErr[r2]))
        => /\ ppc[r2] = "done"
           /\ presult[r2].projectId = presult[r1].projectId

C7_Witness ==
    /\ ~overlapped
    /\ firstEnded = 1
    /\ ppc[1] = "done" /\ ppc[2] = "done"
    /\ presult[1].projectId = createdId[1]
    /\ HasProjectId(createdId[1])
    /\ DuplicateMarkedError(createErr[2])
    /\ AlreadyExistsError(addErr[2])
    /\ presult[2].projectId = presult[1].projectId
    /\ hadFailure[2] = {}

\* C8: against a remote whose only rejections are the already-exists ones,
\* no invocation fails;
\* invocations for the same (userId, email, workspaceId) that have returned,
\* returned the same projectId; and once all have ended the workspace holds
\* exactly one project of each derived name.
C8_ConcurrentRunsConverge ==
    /\ \A r \in Runs : ppc[r] # "failed"
    /\ \A r \in Runs, q \in Runs :
        (SameEvent(r, q) /\ ppc[r] = "done" /\ ppc[q] = "done")
        => presult[r].projectId = presult[q].projectId
    /\ (\A r \in Runs : Ended(r))
        => \A r \in Runs : ProjectsNamed(projectName[r]) = 1

C8_Witness ==
    /\ \A r \in Runs : actorOf[r] = 1 /\ ppc[r] = "done"
    /\ overlapped
    /\ presult[1].projectId = presult[2].projectId
    /\ presult[2].projectId = presult[3].projectId
    /\ ProjectsNamed(projectName[1]) = 1
    /\ \E r \in Runs : createdId[r] = NoId /\ createErr[r] # NoError /\ addErr[r] = NoError

\* the run created the project and then failed at projectMemberAdd
FailedAtMemberAdd(r) ==
    /\ ppc[r] = "failed"
    /\ createdId[r] # NoId
    /\ addErr[r] # NoError
    /\ pfailure[r] = addErr[r]

\* q was invoked after r had ended
InvokedAfter(r, q) == ~overlapped /\ firstEnded = r /\ ppc[q] \notin {"off", "idle"}

\* what C9 promises of the later run q after the partial run r
RecoversFrom(r, q) ==
    /\ ppc[q] # "failed"
    /\ ppc[q] = "done"
        => /\ presult[q].projectId = createdId[r]
           /\ ProjectsNamed(projectName[q]) = 1
           /\ IsMember(createdId[r], UserId(q))

RemoteFailureSurfaced(q) ==
    \/ "terminal" \in hadFailure[q]
    \/ ppc[q] = "failed" /\ (pfailure[q].statusCode = 429 \/ pfailure[q].statusCode >= 500)

C10_ConflictFallsBackToLookup ==
    \A r \in Runs :
        DuplicateMarkedError(createErr[r])
        => /\ pfailure[r] # createErr[r]
           /\ ppc[r] = "lookup" \/ lookedUp[r] # <<>> \/ ppc[r] = "failed"
           /\ addArgs[r] # <<>>
               => /\ lookedUp[r] # <<>>
                  /\ \E i \in 1..Len(lookedUp[r][1]) :
                        /\ lookedUp[r][1][i].name = deriveProjectName(Email(r), UserId(r))
                        /\ lookedUp[r][1][i].id = addArgs[r][1].projectId
                        /\ \A j \in 1..(i - 1) : lookedUp[r][1][j].name # lookedUp[r][1][i].name
                  /\ addArgs[r][1].projectId = projectId[r]
           /\ ppc[r] = "done"
               => /\ addArgs[r] # <<>>
                  /\ presult[r].projectId = addArgs[r][1].projectId

C10_Witness ==
    /\ ppc[2] = "done"
    /\ createErr[2].statusCode = 409
    /\ DuplicateMarkedError(createErr[2])
    /\ Len(lookedUp[2][1]) = 2
    /\ lookedUp[2][1][2].name = projectName[2]
    /\ presult[2].projectId = lookedUp[2][1][2].id
    /\ addArgs[2][1].projectId = presult[2].projectId

----------------------------------------------------------------------------
(* Properties of Provisioner.provision in a shared workspace *)

\* the run's projectCreate ended in a Conflict: a RailwayAPIError with a
\* duplicate, already-exists or unique marker
CreateConflict(r) == DuplicateMarkedError(createErr[r])

\* the project list the run's lookup returned has no project of its name
LookupFoundNone(r) ==
    /\ lookedUp[r] # <<>>
    /\ \A i \in DOMAIN lookedUp[r][1] : lookedUp[r][1][i].name # projectName[r]

\* C11: when projectCreate fails with a Conflict and the project list of
\* the lookup holds no project of the derived name, provision fails with an
\* error and projectMemberAdd is never called.
C11_LookupWithoutMatchFails ==
    \A r \in Runs :
        (CreateConflict(r) /\ LookupFoundNone(r)) =>
            /\ ppc[r] = "failed"
            /\ pfailure[r] = ForeignError("Error", MsgCouldNotFind \o projectName[r])
            /\ presult[r] = NoResult
            /\ addArgs[r] = <<>>

\* the project was deleted between the conflict and the lookup, and the
\* list still holds another project
C11_Witness ==
    \E r \in Runs :
        /\ CreateConflict(r)
        /\ LookupFoundNone(r)
        /\ lookedUp[r][1] # <<>>
        /\ ppc[r] = "failed"

\* C12: when projectCreate fails with an error that is not a Conflict,
\* provision throws that same error, makes no lookup and never calls
\* projectMemberAdd.
C12_OtherCreateFailureIsRethrown ==
    \A r \in Runs :
        (createErr[r] # NoError /\ ~CreateConflict(r)) =>
            /\ ppc[r] = "failed"
            /\ pfailure[r] = createErr[r]
            /\ presult[r] = NoResult
            /\ lookedUp[r] = <<>>
            /\ addArgs[r] = <<>>

\* a projectCreate exhausted its retries on rejected fetches and threw the
\* last rejection, which is no RailwayAPIError
C12_Witness ==
    \E r \in Runs :
        /\ createErr[r] = ForeignError("TypeError", MsgFetchFailed)
        /\ "transient" \in hadFailure[r]
        /\ ppc[r] = "failed"

\* the error is the remote's rejection of a membership that already exists
MemberExistsRejection(err) ==
    err = RailwayAPIError(MsgGraphQL \o ErrMemberExists, Undefined, <<ErrMemberExists>>)

\* C13: when projectMemberAdd fails with the Conflict of a membership that
\* already exists, provision does not fail: it returns the
\* ProvisioningResult with the resolved projectId.
C13_MemberConflictIsSuccess ==
    \A r \in Runs :
        MemberExistsRejection(addErr[r]) =>
            /\ ppc[r] = "done"
            /\ pfailure[r] = NoError
            /\ projectId[r] # NoId
            /\ presult[r] = ProvisioningResult(UserId(r), Email(r), projectId[r], projectName[r])

C13_Witness ==
    \E r \in Runs :
        /\ MemberExistsRejection(addErr[r])
        /\ ppc[r] = "done"
        /\ lookedUp[r] # <<>>

\* C14 as claimed: every projectMemberAdd failure other than the rejection
\* of a membership that already exists is thrown by provision as it is, and
\* provision returns no ProvisioningResult after it.
C14_AsClaimed ==
    \A r \in Runs :
        (addErr[r] # NoError /\ ~MemberExistsRejection(addErr[r])) =>
            /\ ppc[r] = "failed"
            /\ pfailure[r] = addErr[r]
            /\ presult[r] = NoResult

\* C15 as claimed: at the moment provision returns a ProvisioningResult, the
\* actor is ADMIN of result.projectId in the remote.
C15_AsClaimed ==
    [][\A r \in Runs :
          (ppc[r] # "done" /\ ppc'[r] = "done") =>
              Membership(presult'[r].projectId, UserId(r), RoleAdmin) \in members']_vars

\* C16 as claimed: the project ids returned for two different users differ,
\* and no project has two of them as ADMIN.
C16_AsClaimed ==
    \A r \in Runs, q \in Runs :
        (ppc[r] = "done" /\ ppc[q] = "done" /\ UserId(r) # UserId(q)) =>
            /\ presult[r].projectId # presult[q].projectId
            /\ ~\E i \in DOMAIN projects :
                  /\ Membership(projects[i].id, UserId(r), RoleAdmin) \in members
                  /\ Membership(projects[i].id, UserId(q), RoleAdmin) \in members

\* C20 as claimed: a result that reports workspaceRole VIEWER is returned
\* only after the member's workspace role was set to VIEWER in the remote.
C20_AsClaimed ==
    \A r \in Runs :
        (ppc[r] = "done" /\ presult[r].workspaceRole = RoleViewer) =>
            workspaceRole[actorOf[r]] = RoleViewer

----------------------------------------------------------------------------
(* Properties of Provisioner.deriveProjectName *)

\* the elements of s at the indices in keep, in order
Pick(s, keep) ==
    [j \in 1..Cardinality(keep) |->
        s[CHOOSE i \in keep : Cardinality({k \in keep : k <= i}) = j]]

\* the text before the first "@"
ClaimedLocalPart(email) ==
    Pick(email, {i \in 1..Len(email) : \A k \in 1..i : email[k] # "@"})

\* lower-cased, every character outside [a-z0-9-] replaced by "-", runs of
\* "-" collapsed, leading and trailing "-" removed
ClaimedSanitized(local) ==
    LET lower == ToLowerCase(local)
        replaced == [i \in 1..Len(lower) |-> IF lower[i] \in AllowedChars THEN lower[i] ELSE "-"]
        collapsed == Pick(replaced, {i \in 1..Len(replaced) :
                                        ~(replaced[i] = "-" /\ i > 1 /\ replaced[i - 1] = "-")})
    IN  Pick(collapsed, {i \in 1..Len(collapsed) :
                            /\ \E k \in 1..i : collapsed[k] # "-"
                            /\ \E k \in i..Len(collapsed) : collapsed[k] # "-"})

\* the last 6 characters of userId, the whole userId when it has 6 or fewer
ClaimedSuffix(userId) ==
    Pick(userId, {i \in 1..Len(userId) : i > Len(userId) - 6})

ClaimedName(email, userId) ==
    ClaimedSanitized(ClaimedLocalPart(email)) \o <<"-">> \o ClaimedSuffix(userId)

\* C17: deriveProjectName(email, userId) is the sanitized local-part of the
\* email (the text before the first "@", lower-cased, every character
\* outside [a-z0-9-] replaced by "-", runs of "-" collapsed, leading and
\* trailing "-" removed), then "-", then the last 6 characters of userId
\* (all of userId when it has 6 or fewer).
C17_DerivedNameIsSanitizedLocalPartAndSuffix ==
    dpc = "derived" =>
        /\ dname = ClaimedName(demail, duserId)
        /\ dotherName = ClaimedName(demail, dotherId)

C17_Witness ==
    /\ dpc = "derived"
    /\ demail = <<"J","o","h","n","_","D","o","e","+","t","e","s","t","@","e","x","a","m","p","l","e",".","c","o","m">>
    /\ duserId = <<"u","s","e","r","-","a","b","c","d","e","f","1","2","3","4","5","6">>
    /\ dname = <<"j","o","h","n","-","d","o","e","-","t","e","s","t","-","1","2","3","4","5","6">>

\* the four emails of the claim and the name claimed for each
NameExamples ==
    { <<<<"j","o","h","n",".","d","o","e","@","e","x","a","m","p","l","e",".","c","o","m">>, <<"j","o","h","n","-","d","o","e">>>>,
      <<<<"J","o","h","n","_","D","o","e","+","t","e","s","t","@","e","x","a","m","p","l","e",".","c","o","m">>, <<"j","o","h","n","-","d","o","e","-","t","e","s","t">>>>,
      <<<<".","j","o","h","n",".","@","e","x","a","m","p","l","e",".","c","o","m">>, <<"j","o","h","n">>>>,
      <<<<"j","o","h","n",".",".","d","o","e","@","e","x","a","m","p","l","e",".","c","o","m">>, <<"j","o","h","n","-","d","o","e">>>> }

\* C18 as claimed: the name is derived from the email local-part alone: the
\* four emails give "john-doe", "john-doe-test", "john" and "john-doe", and
\* two actors with the same local-part get the same name whatever their ids.
C18_AsClaimed ==
    dpc = "derived" =>
        /\ \A ex \in NameExamples : demail = ex[1] => dname = ex[2]
        /\ dotherName = dname

\* C18 as amended: the name is derived from the email local-part and the
\* last 6 characters of the actor id: the four emails give "john-doe",
\* "john-doe-test", "john" and "john-doe", each followed by "-" and the last
\* 6 characters of the id, and two actors with the same local-part get the
\* same name exactly when the last 6 characters of their ids are the same.
C18_NameFromLocalPartAndIdSuffix ==
    dpc = "derived" =>
        /\ \A ex \in NameExamples :
              demail = ex[1] => dname = ex[2] \o <<"-">> \o LastChars(duserId, 6)
        /\ (dotherName = dname) <=> (LastChars(dotherId, 6) = LastChars(duserId, 6))

C18_Witness ==
    /\ dpc = "derived"
    /\ demail = <<".","j","o","h","n",".","@","e","x","a","m","p","l","e",".","c","o","m">>
    /\ duserId = <<"a","b","c","1","2","3">>
    /\ dotherId = <<"z","z","-","a","b","c","1","2","3">>
    /\ dname = <<"j","o","h","n","-","a","b","c","1","2","3">>
    /\ dotherName = dname

\* the name has only characters of [a-z0-9-], no two consecutive "-", and
\* neither starts nor ends with "-"
WellFormedName(name) ==
    /\ \A i \in 1..Len(name) : name[i] \in AllowedChars
    /\ \A i \in 1..(Len(name) - 1) : ~(name[i] = "-" /\ name[i + 1] = "-")
    /\ name # <<>> => name[1] # "-" /\ name[Len(name)] # "-"

\* C19 as claimed: for every email and userId, the derived project name has
\* only characters of [a-z0-9-], no two consecutive "-", and neither starts
\* nor ends with "-".
C19_AsClaimed ==
    dpc = "derived" => WellFormedName(dname)

----------------------------------------------------------------------------
(* Properties of NotificationSetup.ensureNotificationRule *)

NEnded == npc \in {"returned", "thrown"}

\* the callback URL of the configured public domain
CallbackUrl == <<"h","t","t","p","s",":","/","/">> \o publicDomain \o <<"/","w","e","b","h","o","o","k">>

\* the subscription is for the join event and has a webhook channel to url
IsSubscribed(rule, url) ==
    /\ JoinedEvent \in {rule.eventTypes[e] : e \in DOMAIN rule.eventTypes}
    /\ Channel("webhook", url) \in {rule.channels[c] : c \in DOMAIN rule.channels}

\* the positions of the listed subscriptions that match
Subscribed(list) == {i \in DOMAIN list : IsSubscribed(list[i], CallbackUrl)}

\* the first listed subscription that matches
FoundRule(list) == list[CHOOSE i \in Subscribed(list) : \A j \in Subscribed(list) : i <= j]

\* the calls of one kind the current invocation has made
CallsOf(op) == SelectSeq(ncalls, LAMBDA call : call.op = op)

\* the current invocation has listed the subscriptions
Listed == ncalls # <<>> /\ ncalls[1].op = "list" /\ ~ncalls[1].thrown

\* C27: with no public domain configured, an invocation of
\* ensureNotificationRule returns null after one warning and has called
\* the remote not once: no list, no create, no delete; the rules of the
\* workspace stay what they were.
C27_NoDomainSkipsSetup ==
    (~(publicDomain # NotSet) /\ npc \notin {"off", "start"}) =>
        /\ npc = "returned"
        /\ nresult = NoRule
        /\ nwarnings = 1
        /\ ncalls = <<>>
        /\ rules = rulesBefore

C27_Witness ==
    /\ publicDomain = NotSet
    /\ webhookSecret = Secret
    /\ npc = "returned"
    /\ nruns = 1
    /\ Subscribed(rules) = {}
    /\ rules # <<>>

C30_WitnessDeleteFails ==
    /\ webhookSecret = Secret
    /\ npc = "thrown"
    /\ Len(ncalls) = 2
    /\ ncalls[2].thrown

----------------------------------------------------------------------------
(* Properties of WebhookHandler.validatePayload *)

\* a non-null object
IsStructure(v) == v.t \in {"object", "array"}

\* the one property of the name that v has
Member(v, k) == v.f[CHOOSE i \in DOMAIN v.f : v.f[i].k = k].v
HasMember(v, k) == \E i \in DOMAIN v.f : v.f[i].k = k
HasStringMember(v, k) == HasMember(v, k) /\ Member(v, k).t = "string"
HasStructureMember(v, k) == HasMember(v, k) /\ IsStructure(Member(v, k))

\* a non-null object with a string type, a non-null object details with
\* string userId and email, and a non-null object resource with a non-null
\* object workspace with a string id
IsWebhookPayload(v) ==
    /\ IsStructure(v)
    /\ HasStringMember(v, KeyType)
    /\ HasStructureMember(v, KeyDetails)
    /\ HasStringMember(Member(v, KeyDetails), KeyUserId)
    /\ HasStringMember(Member(v, KeyDetails), KeyEmail)
    /\ HasStructureMember(v, KeyResource)
    /\ HasStructureMember(Member(v, KeyResource), KeyWorkspace)
    /\ HasStringMember(Member(Member(v, KeyResource), KeyWorkspace), KeyId)

C26_WitnessAccepted ==
    /\ vpc = "returned"
    /\ vanswer = "true"
    /\ Member(Payloads[vinput], KeyType).s = TypeTest

----------------------------------------------------------------------------
(* Properties of WebhookHandler.handleWebhook *)

\* handleWebhook has taken up the request; it has answered it
HTaken == hpc \notin {"off", "received"}
HAnswered == hpc = "responded"

\* the body is JSON text, and what it decodes to
BodyIsJson == JsonParse(rawBody).ok
Decoded == JsonParse(rawBody).value

\* the body decodes to a payload of the structure validatePayload asks for;
\* its type is the join event
BodyIsPayload == BodyIsJson /\ IsWebhookPayload(Decoded)
BodyIsJoin == BodyIsPayload /\ Member(Decoded, KeyType).s = TypeJoined

\* a secret is configured; the header carries the lower-case hex digest of
\* the raw body under it
SecretConfigured == webhookSecret # NotSet
CorrectlySigned == signature.present /\ signature.value = Sign(webhookSecret, rawBody)
PassesAuthentication == ~SecretConfigured \/ CorrectlySigned

\* the response has the status and says the text under the key
Answered(status) == HAnswered /\ response.status = status
Says(k, text) == HasStringMember(response.body, k) /\ Member(response.body, k).s = text

\* Provisioner.provision was not called and the remote saw no call
NeverProvisioned ==
    /\ provisioned = <<>>
    /\ ppc[HandlerRun] = "off"
    /\ created = 0
    /\ addArgs[HandlerRun] = <<>>

\* C21 as it is stated: every structurally valid payload whose type is not
\* the join event is answered 200 with status "ignored" and its type, and
\* provision is never called.
C21_AsClaimed ==
    (HTaken /\ BodyIsPayload /\ ~BodyIsJoin) =>
        /\ Answered(200)
        /\ Says(KeyStatus, MsgIgnored)
        /\ Says(KeyType, Member(Decoded, KeyType).s)
        /\ NeverProvisioned

\* C21: a structurally valid payload whose type is not the join event never
\* leads to a call of provision; when its request passes authentication
\* (no secret is configured, or the signature is the correct one) it is
\* answered 200 with status "ignored" and the received type.
C21_AuthenticatedNonJoinIsIgnored ==
    (HTaken /\ BodyIsPayload /\ ~BodyIsJoin) =>
        /\ NeverProvisioned
        /\ HAnswered
        /\ PassesAuthentication =>
              /\ Answered(200)
              /\ Says(KeyStatus, MsgIgnored)
              /\ Says(KeyType, Member(Decoded, KeyType).s)
              /\ Len(response.body.f) = 2

C21_Witness ==
    /\ SecretConfigured
    /\ CorrectlySigned
    /\ BodyIsPayload
    /\ Answered(200)
    /\ Says(KeyStatus, MsgIgnored)
    /\ Says(KeyType, TypeRemoved)

\* C22 as it is stated: a request whose body is no JSON, or decodes to a
\* value that fails validatePayload, is answered 400 and never leads to a
\* call of provision.
C22_AsClaimed ==
    (HTaken /\ ~BodyIsPayload) =>
        /\ Answered(400)
        /\ NeverProvisioned

\* C22: a request whose body is no JSON is answered 400; a request whose
\* decoded body fails validatePayload is answered 400 when no secret is
\* configured or its signature is correct, and 401 otherwise; none of them
\* leads to a call of provision or to any remote call.
C22_MalformedIsRejected ==
    (HTaken /\ ~BodyIsPayload) =>
        /\ NeverProvisioned
        /\ ~BodyIsJson => Answered(400)
        /\ BodyIsJson => Answered(IF PassesAuthentication THEN 400 ELSE 401)

C22_Witness ==
    /\ SecretConfigured
    /\ CorrectlySigned
    /\ BodyIsJson
    /\ ~BodyIsPayload
    /\ Decoded # JsNull
    /\ Answered(400)
    /\ Says(KeyError, MsgInvalidPayload)

\* C23 as it is stated: with a secret configured, every request whose
\* signature header is missing or is not the lower-case hex digest of the
\* raw body is answered 401 and never reaches provision, whatever its body
\* is, a body that is no JSON included.
C23_AsClaimed ==
    (HTaken /\ SecretConfigured /\ ~CorrectlySigned) =>
        /\ Answered(401)
        /\ NeverProvisioned

\* C24: with no secret configured, verifySignature is never called and the
\* outcome of a request is decided by its body alone, whatever the signature
\* header is: 400 for a body that is no JSON or no payload, 200 "ignored"
\* for another event, and for a join event one call of provision and its
\* outcome.
C24_NoSecretNoVerification ==
    (HTaken /\ ~SecretConfigured) =>
        /\ verified = 0
        /\ ~BodyIsJson => Answered(400) /\ Says(KeyError, MsgInvalidJson)
        /\ (BodyIsJson /\ ~BodyIsPayload) => Answered(400) /\ Says(KeyError, MsgInvalidPayload)
        /\ (BodyIsPayload /\ ~BodyIsJoin) => Answered(200) /\ Says(KeyStatus, MsgIgnored)
        /\ BodyIsJoin =>
              /\ Len(provisioned) = 1
              /\ ppc[HandlerRun] # "off"
              /\ HAnswered =>
                    \/ ppc[HandlerRun] = "done" /\ Answered(200) /\ Says(KeyStatus, MsgProvisioned)
                    \/ ppc[HandlerRun] = "failed" /\ Answered(500)

\* a join event with a signature that is no digest is provisioned
C24_Witness ==
    /\ ~SecretConfigured
    /\ signature = Header(InvalidSig)
    /\ BodyIsJoin
    /\ Answered(200)
    /\ Says(KeyStatus, MsgProvisioned)

\* the arguments the event asks for: details.userId, details.email and
\* resource.workspace.id
JoinArguments ==
    << Member(Member(Decoded, KeyDetails), KeyUserId).s,
       Member(Member(Decoded, KeyDetails), KeyEmail).s,
       Member(Member(Member(Decoded, KeyResource), KeyWorkspace), KeyId).s >>

\* the response carries the fields of the result of provision
SaysResult(result) ==
    /\ Says(KeyUserId, result.userId)
    /\ Says(KeyEmail, result.email)
    /\ Says(KeyProjectId, result.projectId)
    /\ Says(KeyProjectName, result.projectName)
    /\ Says(KeyWorkspaceRole, result.workspaceRole)
    /\ Says(KeyProjectRole, result.projectRole)

\* C25: for a valid join event that passes authentication, provision is
\* called exactly once, with (details.userId, details.email,
\* resource.workspace.id); the response waits for it; when it resolves the
\* response is 200 with status "provisioned" and the fields of the result;
\* when it rejects the response is 500 with error "Provisioning failed" and
\* the message of the error it threw.
C25_JoinIsProvisionedOnce ==
    (HTaken /\ BodyIsJoin /\ PassesAuthentication) =>
        /\ provisioned = <<JoinArguments>>
        /\ Actors[actorOf[HandlerRun]].userId = JoinArguments[1]
        /\ Actors[actorOf[HandlerRun]].email = JoinArguments[2]
        /\ HAnswered <=> (hpc # "provisioning")
        /\ HAnswered => Ended(HandlerRun)
        /\ (HAnswered /\ ppc[HandlerRun] = "done") =>
              /\ Answered(200)
              /\ Says(KeyStatus, MsgProvisioned)
              /\ SaysResult(presult[HandlerRun])
              /\ presult[HandlerRun].userId = JoinArguments[1]
        /\ (HAnswered /\ ppc[HandlerRun] = "failed") =>
              /\ Answered(500)
              /\ Says(KeyError, MsgProvisioningFailed)
              /\ Says(KeyMessage, pfailure[HandlerRun].message)

\* provision rejected with the 403 of the remote
C25_Witness ==
    /\ SecretConfigured
    /\ CorrectlySigned
    /\ BodyIsJoin
    /\ Answered(500)
    /\ Says(KeyError, MsgProvisioningFailed)
    /\ Says(KeyMessage, MsgApiError \o NumToStr(403) \o <<" ">> \o BodyForbidden)

\* provision resolved after the lookup of the project that was there
C25_WitnessResolved ==
    /\ SecretConfigured
    /\ CorrectlySigned
    /\ Answered(200)
    /\ Says(KeyStatus, MsgProvisioned)
    /\ Says(KeyProjectId, NewProjectId(0))

----------------------------------------------------------------------------
(* Properties of the subscriptions NotificationSetup leaves in the workspace *)

SecretFields == {"secret", "webhookSecret"}

\* the input of a create request carries the secret, in the input itself or
\* in one of its channel configurations
CarriesSecret(input, secret) ==
    \/ \E k \in SecretFields \cap DOMAIN input : input[k] = secret
    \/ \E c \in DOMAIN input.channelConfigs :
          \E k \in SecretFields \cap DOMAIN input.channelConfigs[c] :
              input.channelConfigs[c][k] = secret

\* C32 as it is stated: while a webhook secret is configured, every create
\* request ensureNotificationRule has sent to the remote carries that secret.
C32_AsClaimed ==
    webhookSecret # NotSet =>
        \A i \in DOMAIN createInputs : CarriesSecret(createInputs[i], webhookSecret)

\* the current run, with a secret configured, has stopped after its delete
\* succeeded and before a create was applied: the process stopped before the
\* create call, or the remote refused it
StoppedBetweenDeleteAndCreate ==
    /\ publicDomain # NotSet
    /\ webhookSecret # NotSet
    /\ Listed
    /\ Len(ncalls) >= 2
    /\ ncalls[2].op = "delete"
    /\ ~ncalls[2].thrown
    /\ \/ npc = "crashed" /\ Len(ncalls) = 2
       \/ npc = "thrown" /\ Len(ncalls) = 3 /\ nfailure = ErrRefused

RuleIds(list) == {list[i].id : i \in DOMAIN list}

----------------------------------------------------------------------------
(* Properties of RailwayClient.query for failures that are no RailwayAPIError *)

\* fetch rejected, or the body of a 2xx response is no JSON
IsForeignFailure(o) == o.net \/ (o.status \in 200..299 /\ ~o.parses)

\* the number of fetches so far
Fetches == Len(responses)

\* every fetch after the first comes right after the sleep of its attempt
BackoffBeforeEveryRetry ==
    \A i \in DOMAIN qlog :
        (qlog[i].ev = "fetch" /\ qlog[i].attempt > 0) =>
            /\ i > 1
            /\ qlog[i - 1].ev = "sleep"
            /\ qlog[i - 1].attempt = qlog[i].attempt

\* C34: a fetch of RailwayClient.query that fails with something other than
\* a RailwayAPIError (fetch rejects, or a 2xx body is no JSON) consumes one
\* attempt and does not end the call while attempts remain: the loop goes
\* on with a backoff and another fetch; the failure is thrown to the caller
\* only when it was the one of the 4th fetch.
C34_ForeignFailureIsRetried ==
    /\ BackoffBeforeEveryRetry
    /\ \A i \in DOMAIN responses :
          IsForeignFailure(responses[i]) =>
              /\ i <= MAX_RETRIES + 1
              /\ attempt >= i
    /\ (Fetches > 0 /\ IsForeignFailure(responses[Fetches])) =>
          /\ attempt = Fetches
          /\ lastError.name # "RailwayAPIError"
          /\ Fetches <= MAX_RETRIES => qpc \in {"loop", "fetch"}
          /\ Fetches = MAX_RETRIES + 1 => qpc \in {"loop", "thrown"}
          /\ qpc = "thrown" => qresult.error = lastError
    /\ (qpc = "thrown" /\ qresult.error.name # "RailwayAPIError") =>
          /\ Fetches = MAX_RETRIES + 1
          /\ IsForeignFailure(responses[Fetches])

\* fetch rejected first, was retried, and the unreadable body of the 4th
\* fetch is what the caller gets
C34_Witness ==
    /\ qpc = "thrown"
    /\ Fetches = 4
    /\ responses[1].net
    /\ ~IsForeignFailure(responses[2])
    /\ responses[4].status = 200
    /\ ~responses[4].parses
    /\ qresult.error.name = "SyntaxError"

\* a foreign failure of the second fetch is followed by a fetch that returns
C34_WitnessRecovered ==
    /\ qpc = "returned"
    /\ Fetches = 3
    /\ IsForeignFailure(responses[2])

----------------------------------------------------------------------------
(* Properties of a projectCreate whose answer is lost                      *)

\* the remote created the project on a request of the run whose answer was
\* a retryable failure, and the retry of the mutation was rejected as a
\* duplicate
CreateAnswerLost(r) ==
    /\ createdId[r] # NoId
    /\ "transient" \in hadFailure[r]
    /\ DuplicateMarkedError(createErr[r])

\* C35: when a projectCreate of a run was applied by the remote and answered
\* with a retryable failure, and the retry of the mutation was rejected as a
\* duplicate, the run (no later call of which ends in a failure of the
\* remote's own) does not fail: it goes on to the lookup and the member add,
\* and when it has returned its result carries the id of the project its
\* first attempt created and the workspace holds one project of the derived
\* name.
C35_LostCreateStillSucceeds ==
    \A r \in Runs :
        (CreateAnswerLost(r) /\ ~RemoteFailureSurfaced(r))
        => /\ ppc[r] \in {"lookup", "add", "done"}
           /\ projectId[r] # NoId => projectId[r] = createdId[r]
           /\ ppc[r] = "done"
               => /\ presult[r].projectId = createdId[r]
                  /\ ProjectsNamed(projectName[r]) = 1

C35_Witness ==
    /\ CreateAnswerLost(1)
    /\ hadFailure[1] = {"transient"}
    /\ ppc[1] = "done"
    /\ lookedUp[1] # <<>>
    /\ addErr[1] = NoError
    /\ presult[1].projectId = createdId[1]
    /\ ProjectsNamed(projectName[1]) = 1
    /\ ppc[2] = "idle"

----------------------------------------------------------------------------
(* Properties of the order of the client calls of provision                *)

\* the moves of a run from one client call to the next: none leads back, so
\* a run is at each call at most once
CallOrder ==
    { <<"idle", "create">>,
      <<"create", "lookup">>, <<"create", "add">>, <<"create", "failed">>,
      <<"lookup", "add">>, <<"lookup", "failed">>,
      <<"add", "done">>, <<"add", "failed">> }

\* the list the lookup returned holds a project of that id and of the name
\* the run derived
LookupGave(r, id) ==
    /\ lookedUp[r] # <<>>
    /\ \E i \in 1..Len(lookedUp[r][1]) :
          lookedUp[r][1][i].id = id /\ lookedUp[r][1][i].name = projectName[r]

\* C36: a run moves from projectCreate to the lookup or to projectMemberAdd,
\* and from the lookup to projectMemberAdd, never back and never past one of
\* them; it starts the lookup only when projectCreate threw an
\* already-exists error; it starts projectMemberAdd holding the id that
\* projectCreate returned or that the lookup found; and the arguments of
\* projectMemberAdd are that id, the userId of the actor and "ADMIN".
C36_CallsInOrderOnceEach ==
    [][\A r \in Runs :
          /\ ppc'[r] # ppc[r] => <<ppc[r], ppc'[r]>> \in CallOrder
          /\ ppc'[r] = "lookup" => DuplicateMarkedError(createErr'[r])
          /\ (ppc[r] = "create" /\ ppc'[r] = "add")
              => /\ createErr'[r] = NoError
                 /\ projectId'[r] # NoId
                 /\ projectId'[r] = createdId'[r]
          /\ (ppc[r] = "lookup" /\ ppc'[r] = "add")
              => /\ projectId'[r] # NoId
                 /\ lookedUp'[r] # <<>>
                 /\ \E i \in 1..Len(lookedUp'[r][1]) :
                       /\ lookedUp'[r][1][i].id = projectId'[r]
                       /\ lookedUp'[r][1][i].name = projectName[r]
          /\ ppc'[r] \in {"idle", "create", "lookup"} => addArgs'[r] = <<>>
          /\ addArgs'[r] # addArgs[r]
              => /\ ppc[r] = "add"
                 /\ projectId'[r] = projectId[r]
                 /\ addArgs'[r] = <<[projectId |-> projectId[r],
                                     userId |-> Actors[actorOf[r]].userId,
                                     role |-> <<"A","D","M","I","N">>]>>
    ]_vars

C36_Witness ==
    /\ ppc[1] = "done" /\ ppc[2] = "done"
    /\ createErr[1] = NoError
    /\ lookedUp[1] = <<>>
    /\ addArgs[1] = <<Membership(createdId[1], UserId(1), RoleAdmin)>>
    /\ DuplicateMarkedError(createErr[2])
    /\ createdId[2] = NoId
    /\ LookupGave(2, createdId[1])
    /\ addArgs[2] = <<Membership(createdId[1], UserId(2), RoleAdmin)>>
    /\ hadFailure[1] = {"transient"}

----------------------------------------------------------------------------
(* Properties of runs for different actors                                 *)

\* the arguments of the run and the name derived from them
OwnUserId(r) == Actors[actorOf[r]].userId
OwnEmail(r) == Actors[actorOf[r]].email
OwnName(r) == deriveProjectName(OwnEmail(r), OwnUserId(r))

\* every other invocation is for an actor with another derived name
OthersDiffer(r) ==
    /\ Invoked(r)
    /\ \A q \in Runs \ {r} : Invoked(q) => OwnName(q) # OwnName(r)

\* the workspace held a project of the run's name, and the actor was a
\* member of it, before the events (nothing is deleted here)
WasThere(r) ==
    \E i \in 1..Len(projects) :
        projects[i].id = NewProjectId(0) /\ projects[i].name = OwnName(r)
WasMember(r) ==
    \E m \in members :
        m.projectId = NewProjectId(0) /\ m.userId = OwnUserId(r) /\ m.role = RoleViewer

\* C37: the calls and the result of a run are determined by its own
\* arguments and by what the workspace held for its own name, however the
\* runs for actors with other derived names are interleaved with it: it
\* does not fail; it looks the project up exactly when the workspace held
\* one of its name; the id it passes to projectMemberAdd, with its own
\* userId and "ADMIN", is the id of that project or else the id the remote
\* issued for its own projectCreate; projectMemberAdd is rejected exactly
\* when the actor was a member already; and its result carries its own
\* userId, email and derived name with that id.
C37_RunsOfOtherActorsDoNotInterfere ==
    \A r \in Runs :
        OthersDiffer(r)
        => LET id == IF WasThere(r) THEN NewProjectId(0) ELSE createdId[r] IN
           /\ ppc[r] # "failed"
           /\ ppc[r] \in {"create", "lookup", "add", "done"} => projectName[r] = OwnName(r)
           /\ ppc[r] \in {"lookup", "add", "done"}
               => /\ DuplicateMarkedError(createErr[r]) <=> WasThere(r)
                  /\ createErr[r] = NoError <=> ~WasThere(r)
                  /\ ppc[r] = "lookup" => WasThere(r)
           /\ ppc[r] \in {"add", "done"}
               => /\ id # NoId
                  /\ projectId[r] = id
                  /\ lookedUp[r] # <<>> <=> WasThere(r)
           /\ ppc[r] = "done"
               => /\ addArgs[r] = <<[projectId |-> id, userId |-> OwnUserId(r),
                                     role |-> RoleAdmin]>>
                  /\ AlreadyExistsError(addErr[r]) <=> WasMember(r)
                  /\ addErr[r] = NoError <=> ~WasMember(r)
                  /\ presult[r] = [userId |-> OwnUserId(r), email |-> OwnEmail(r),
                                   projectId |-> id, projectName |-> OwnName(r),
                                   workspaceRole |-> RoleViewer, projectRole |-> RoleAdmin]

\* the runs of two actors overlapped, the other created its project first,
\* and both have returned
C37_Witness ==
    /\ OthersDiffer(1) /\ OthersDiffer(2)
    /\ overlapped
    /\ ppc[1] = "done" /\ ppc[2] = "done"
    /\ ~WasThere(1)
    /\ createdId[2] = NewProjectId(1)
    /\ createdId[1] = NewProjectId(2)
    /\ presult[1].projectId = createdId[1]
    /\ presult[2].projectId = createdId[2]

\* the run has returned and the one for the other actor has not begun
C37_WitnessNotInterleaved ==
    /\ OthersDiffer(1)
    /\ ppc[1] = "done" /\ ppc[2] = "idle"
    /\ WasThere(1) /\ WasMember(1)
    /\ presult[1].projectId = NewProjectId(0)

====
